---- MODULE Spec2Model ----
(***************************************************************************)
(* SHA-512/256 of GNU libmicrohttpd (src/microhttpd/sha512_256.c): the     *)
(* context, MHD_SHA512_256_init / _update / _finish and the compression    *)
(* function sha512_256_transform.                                          *)
(*                                                                         *)
(* A uint64_t is a tuple of 8 bytes, most significant byte first, so that  *)
(* the arithmetic keeps its 64-bit width (TLC's integers are narrower) and *)
(* a big-endian load or store is a copy of 8 consecutive bytes.            *)
(***************************************************************************)
EXTENDS Integers, Sequences, FiniteSets, TLC

(***************************************************************************)
(* Bytes and the C operators on uint64_t                                   *)
(***************************************************************************)
Byte == 0..255

\* bit k of the byte a
Bit(a, k) == (a \div (2 ^ k)) % 2

\* a ^ b on bytes
BitXor(a, b) ==
    ((Bit(a, 0) + Bit(b, 0)) % 2)       + ((Bit(a, 1) + Bit(b, 1)) % 2) * 2
  + ((Bit(a, 2) + Bit(b, 2)) % 2) * 4   + ((Bit(a, 3) + Bit(b, 3)) % 2) * 8
  + ((Bit(a, 4) + Bit(b, 4)) % 2) * 16  + ((Bit(a, 5) + Bit(b, 5)) % 2) * 32
  + ((Bit(a, 6) + Bit(b, 6)) % 2) * 64  + ((Bit(a, 7) + Bit(b, 7)) % 2) * 128

\* a & b on bytes
BitAnd(a, b) ==
    (Bit(a, 0) * Bit(b, 0))       + (Bit(a, 1) * Bit(b, 1)) * 2
  + (Bit(a, 2) * Bit(b, 2)) * 4   + (Bit(a, 3) * Bit(b, 3)) * 8
  + (Bit(a, 4) * Bit(b, 4)) * 16  + (Bit(a, 5) * Bit(b, 5)) * 32
  + (Bit(a, 6) * Bit(b, 6)) * 64  + (Bit(a, 7) * Bit(b, 7)) * 128

\* the two operators tabulated once per byte pair
\* (as tuples, the entry for a and b at [a + 1][b + 1])
XorTab ==
  SubSeq([a \in 1..256 |->
            SubSeq([b \in 1..256 |-> BitXor(a - 1, b - 1)], 1, 256)], 1, 256)
AndTab ==
  SubSeq([a \in 1..256 |->
            SubSeq([b \in 1..256 |-> BitAnd(a - 1, b - 1)], 1, 256)], 1, 256)
XorByte(a, b) == XorTab[a + 1][b + 1]
AndByte(a, b) == AndTab[a + 1][b + 1]

Word64 == [1..8 -> Byte]
Zero64 == <<0, 0, 0, 0, 0, 0, 0, 0>>

\* x ^ y
Xor64(x, y) ==
  <<XorByte(x[1], y[1]), XorByte(x[2], y[2]), XorByte(x[3], y[3]),
    XorByte(x[4], y[4]), XorByte(x[5], y[5]), XorByte(x[6], y[6]),
    XorByte(x[7], y[7]), XorByte(x[8], y[8])>>
\* x & y
And64(x, y) ==
  <<AndByte(x[1], y[1]), AndByte(x[2], y[2]), AndByte(x[3], y[3]),
    AndByte(x[4], y[4]), AndByte(x[5], y[5]), AndByte(x[6], y[6]),
    AndByte(x[7], y[7]), AndByte(x[8], y[8])>>

\* x + y on uint64_t: the carry out of the top byte is dropped
Add64(x, y) ==
  LET s8 == x[8] + y[8]
      s7 == x[7] + y[7] + (s8 \div 256)
      s6 == x[6] + y[6] + (s7 \div 256)
      s5 == x[5] + y[5] + (s6 \div 256)
      s4 == x[4] + y[4] + (s5 \div 256)
      s3 == x[3] + y[3] + (s4 \div 256)
      s2 == x[2] + y[2] + (s3 \div 256)
      s1 == x[1] + y[1] + (s2 \div 256)
  IN  <<s1 % 256, s2 % 256, s3 % 256, s4 % 256,
        s5 % 256, s6 % 256, s7 % 256, s8 % 256>>

\* the byte of x at position j, a byte outside the word being `fill'
ByteAt(x, j, fill) == IF j \in 1..8 THEN x[j] ELSE fill

\* x >> n, 0 <= n < 64
Shr64(x, n) ==
  LET q == n \div 8
      lo == 2 ^ (n % 8)
      hi == 2 ^ (8 - (n % 8))
      B(i) == (ByteAt(x, i - q, 0) \div lo) + (ByteAt(x, i - q - 1, 0) % lo) * hi
  IN  <<B(1), B(2), B(3), B(4), B(5), B(6), B(7), B(8)>>

\* x << n, 0 <= n < 64, the bits shifted out of the top are dropped
Shl64(x, n) ==
  LET q == n \div 8
      lo == 2 ^ (n % 8)
      hi == 2 ^ (8 - (n % 8))
      B(i) == ((ByteAt(x, i + q, 0) * lo) % 256) + (ByteAt(x, i + q + 1, 0) \div hi)
  IN  <<B(1), B(2), B(3), B(4), B(5), B(6), B(7), B(8)>>

\* _MHD_ROTR64 (x, n): rotate right by n bits, 0 < n < 64
MHD_ROTR64(x, n) ==
  LET q == n \div 8
      lo == 2 ^ (n % 8)
      hi == 2 ^ (8 - (n % 8))
      Idx(j) == ((j + 7) % 8) + 1
      B(i) == (x[Idx(i - q)] \div lo) + (x[Idx(i - q - 1)] % lo) * hi
  IN  <<B(1), B(2), B(3), B(4), B(5), B(6), B(7), B(8)>>

\* _MHD_GET_64BIT_BE (addr): the uint64_t whose big-endian bytes are the 8
\* bytes of mem from (0-based) offset off
MHD_GET_64BIT_BE(mem, off) == SubSeq(mem, off + 1, off + 8)

\* _MHD_PUT_64BIT_BE (addr, value): mem with the 8 bytes from (0-based) offset
\* off set to the big-endian bytes of value
MHD_PUT_64BIT_BE(mem, off, value) ==
  SubSeq(mem, 1, off) \o value \o SubSeq(mem, off + 9, Len(mem))

(***************************************************************************)
(* Sizes                                                                   *)
(***************************************************************************)
SHA512_256_BLOCK_SIZE == 128
SHA512_256_BLOCK_SIZE_WORDS == 16
SHA512_256_HASH_SIZE_WORDS == 8
SHA512_256_DIGEST_SIZE_WORDS == 4
SHA512_256_BYTES_IN_WORD == 8
SHA512_256_DIGEST_SIZE == 32
SHA512_256_SIZE_OF_LEN_ADD_BITS == 128
SHA512_256_SIZE_OF_LEN_ADD == SHA512_256_SIZE_OF_LEN_ADD_BITS \div 8

(***************************************************************************)
(* sha512_256_transform                                                    *)
(***************************************************************************)
\* Ch gone wrong: y is the outer term in place of z
ChOuterY(x, y, z) == Xor64(y, And64(x, Xor64(y, z)))

Ch(x, y, z) == Xor64(z, And64(x, Xor64(y, z)))
Maj(x, y, z) == Xor64(And64(x, y), And64(z, Xor64(x, y)))

\* sig1 gone wrong: the shift by 6 made a rotation
sig1RotatesOnly(x) ==
  Xor64(Xor64(MHD_ROTR64(x, 19), MHD_ROTR64(x, 61)), MHD_ROTR64(x, 6))

SIG0(x) == Xor64(Xor64(MHD_ROTR64(x, 28), MHD_ROTR64(x, 34)), MHD_ROTR64(x, 39))
SIG1(x) == Xor64(Xor64(MHD_ROTR64(x, 14), MHD_ROTR64(x, 18)), MHD_ROTR64(x, 41))
sig0(x) == Xor64(Xor64(MHD_ROTR64(x, 1), MHD_ROTR64(x, 8)), Shr64(x, 7))
sig1(x) == Xor64(Xor64(MHD_ROTR64(x, 19), MHD_ROTR64(x, 61)), Shr64(x, 6))

\* SHA2STEP64 (vA,...,vH,kt,wt) on the working variables v (a..h at 1..8),
\* the macro's arguments being the variables at iA..iH: vH and vD are updated
\* in place, the others are only read
SHA2STEP64(v, iA, iB, iC, iD, iE, iF, iG, iH, kt, wt) ==
  LET h1 == Add64(v[iH],
                  Add64(Add64(Add64(SIG1(v[iE]), Ch(v[iE], v[iF], v[iG])), kt), wt))
      d1 == Add64(v[iD], h1)
      h2 == Add64(h1, Add64(SIG0(v[iA]), Maj(v[iA], v[iB], v[iC])))
  IN  [v EXCEPT ![iD] = d1, ![iH] = h2]

\* GET_W_FROM_DATA (buf, t), 0 <= t <= 15
GET_W_FROM_DATA(buf, t) == MHD_GET_64BIT_BE(buf, 8 * t)

\* Wgen gone wrong: W[(t - 3) & 0xf] is read in place of W[(t - 2) & 0xf]
WgenStaleSlot(w, t) ==
  Add64(Add64(Add64(w[((t - 16) % 16) + 1], sig1(w[((t - 3) % 16) + 1])),
              w[((t - 7) % 16) + 1]),
        sig0(w[((t - 15) % 16) + 1]))

\* Wgen (w, t), 16 <= t <= 79, on the cyclic buffer w (W[0..15] at 1..16)
Wgen(w, t) ==
  Add64(Add64(Add64(w[((t - 16) % 16) + 1], sig1(w[((t - 2) % 16) + 1])),
              w[((t - 7) % 16) + 1]),
        sig0(w[((t - 15) % 16) + 1]))

KInline ==
  << <<\h42, \h8a, \h2f, \h98, \hd7, \h28, \hae, \h22>>,
     <<\h71, \h37, \h44, \h91, \h23, \hef, \h65, \hcd>>,
     <<\hb5, \hc0, \hfb, \hcf, \hec, \h4d, \h3b, \h2f>>,
     <<\he9, \hb5, \hdb, \ha5, \h81, \h89, \hdb, \hbc>>,
     <<\h39, \h56, \hc2, \h5b, \hf3, \h48, \hb5, \h38>>,
     <<\h59, \hf1, \h11, \hf1, \hb6, \h05, \hd0, \h19>>,
     <<\h92, \h3f, \h82, \ha4, \haf, \h19, \h4f, \h9b>>,
     <<\hab, \h1c, \h5e, \hd5, \hda, \h6d, \h81, \h18>>,
     <<\hd8, \h07, \haa, \h98, \ha3, \h03, \h02, \h42>>,
     <<\h12, \h83, \h5b, \h01, \h45, \h70, \h6f, \hbe>>,
     <<\h24, \h31, \h85, \hbe, \h4e, \he4, \hb2, \h8c>>,
     <<\h55, \h0c, \h7d, \hc3, \hd5, \hff, \hb4, \he2>>,
     <<\h72, \hbe, \h5d, \h74, \hf2, \h7b, \h89, \h6f>>,
     <<\h80, \hde, \hb1, \hfe, \h3b, \h16, \h96, \hb1>>,
     <<\h9b, \hdc, \h06, \ha7, \h25, \hc7, \h12, \h35>>,
     <<\hc1, \h9b, \hf1, \h74, \hcf, \h69, \h26, \h94>>,
     <<\he4, \h9b, \h69, \hc1, \h9e, \hf1, \h4a, \hd2>>,
     <<\hef, \hbe, \h47, \h86, \h38, \h4f, \h25, \he3>>,
     <<\h0f, \hc1, \h9d, \hc6, \h8b, \h8c, \hd5, \hb5>>,
     <<\h24, \h0c, \ha1, \hcc, \h77, \hac, \h9c, \h65>>,
     <<\h2d, \he9, \h2c, \h6f, \h59, \h2b, \h02, \h75>>,
     <<\h4a, \h74, \h84, \haa, \h6e, \ha6, \he4, \h83>>,
     <<\h5c, \hb0, \ha9, \hdc, \hbd, \h41, \hfb, \hd4>>,
     <<\h76, \hf9, \h88, \hda, \h83, \h11, \h53, \hb5>>,
     <<\h98, \h3e, \h51, \h52, \hee, \h66, \hdf, \hab>>,
     <<\ha8, \h31, \hc6, \h6d, \h2d, \hb4, \h32, \h10>>,
     <<\hb0, \h03, \h27, \hc8, \h98, \hfb, \h21, \h3f>>,
     <<\hbf, \h59, \h7f, \hc7, \hbe, \hef, \h0e, \he4>>,
     <<\hc6, \he0, \h0b, \hf3, \h3d, \ha8, \h8f, \hc2>>,
     <<\hd5, \ha7, \h91, \h47, \h93, \h0a, \ha7, \h25>>,
     <<\h06, \hca, \h63, \h51, \he0, \h03, \h82, \h6f>>,
     <<\h14, \h29, \h29, \h67, \h0a, \h0e, \h6e, \h70>>,
     <<\h27, \hb7, \h0a, \h85, \h46, \hd2, \h2f, \hfc>>,
     <<\h2e, \h1b, \h21, \h38, \h5c, \h26, \hc9, \h26>>,
     <<\h4d, \h2c, \h6d, \hfc, \h5a, \hc4, \h2a, \hed>>,
     <<\h53, \h38, \h0d, \h13, \h9d, \h95, \hb3, \hdf>>,
     <<\h65, \h0a, \h73, \h54, \h8b, \haf, \h63, \hde>>,
     <<\h76, \h6a, \h0a, \hbb, \h3c, \h77, \hb2, \ha8>>,
     <<\h81, \hc2, \hc9, \h2e, \h47, \hed, \hae, \he6>>,
     <<\h92, \h72, \h2c, \h85, \h14, \h82, \h35, \h3b>>,
     <<\ha2, \hbf, \he8, \ha1, \h4c, \hf1, \h03, \h64>>,
     <<\ha8, \h1a, \h66, \h4b, \hbc, \h42, \h30, \h01>>,
     <<\hc2, \h4b, \h8b, \h70, \hd0, \hf8, \h97, \h91>>,
     <<\hc7, \h6c, \h51, \ha3, \h06, \h54, \hbe, \h30>>,
     <<\hd1, \h92, \he8, \h19, \hd6, \hef, \h52, \h18>>,
     <<\hd6, \h99, \h06, \h24, \h55, \h65, \ha9, \h10>>,
     <<\hf4, \h0e, \h35, \h85, \h57, \h71, \h20, \h2a>>,
     <<\h10, \h6a, \ha0, \h70, \h32, \hbb, \hd1, \hb8>>,
     <<\h19, \ha4, \hc1, \h16, \hb8, \hd2, \hd0, \hc8>>,
     <<\h1e, \h37, \h6c, \h08, \h51, \h41, \hab, \h53>>,
     <<\h27, \h48, \h77, \h4c, \hdf, \h8e, \heb, \h99>>,
     <<\h34, \hb0, \hbc, \hb5, \he1, \h9b, \h48, \ha8>>,
     <<\h39, \h1c, \h0c, \hb3, \hc5, \hc9, \h5a, \h63>>,
     <<\h4e, \hd8, \haa, \h4a, \he3, \h41, \h8a, \hcb>>,
     <<\h5b, \h9c, \hca, \h4f, \h77, \h63, \he3, \h73>>,
     <<\h68, \h2e, \h6f, \hf3, \hd6, \hb2, \hb8, \ha3>>,
     <<\h74, \h8f, \h82, \hee, \h5d, \hef, \hb2, \hfc>>,
     <<\h78, \ha5, \h63, \h6f, \h43, \h17, \h2f, \h60>>,
     <<\h84, \hc8, \h78, \h14, \ha1, \hf0, \hab, \h72>>,
     <<\h8c, \hc7, \h02, \h08, \h1a, \h64, \h39, \hec>>,
     <<\h90, \hbe, \hff, \hfa, \h23, \h63, \h1e, \h28>>,
     <<\ha4, \h50, \h6c, \heb, \hde, \h82, \hbd, \he9>>,
     <<\hbe, \hf9, \ha3, \hf7, \hb2, \hc6, \h79, \h15>>,
     <<\hc6, \h71, \h78, \hf2, \he3, \h72, \h53, \h2b>>,
     <<\hca, \h27, \h3e, \hce, \hea, \h26, \h61, \h9c>>,
     <<\hd1, \h86, \hb8, \hc7, \h21, \hc0, \hc2, \h07>>,
     <<\hea, \hda, \h7d, \hd6, \hcd, \he0, \heb, \h1e>>,
     <<\hf5, \h7d, \h4f, \h7f, \hee, \h6e, \hd1, \h78>>,
     <<\h06, \hf0, \h67, \haa, \h72, \h17, \h6f, \hba>>,
     <<\h0a, \h63, \h7d, \hc5, \ha2, \hc8, \h98, \ha6>>,
     <<\h11, \h3f, \h98, \h04, \hbe, \hf9, \h0d, \hae>>,
     <<\h1b, \h71, \h0b, \h35, \h13, \h1c, \h47, \h1b>>,
     <<\h28, \hdb, \h77, \hf5, \h23, \h04, \h7d, \h84>>,
     <<\h32, \hca, \hab, \h7b, \h40, \hc7, \h24, \h93>>,
     <<\h3c, \h9e, \hbe, \h0a, \h15, \hc9, \hbe, \hbc>>,
     <<\h43, \h1d, \h67, \hc4, \h9c, \h10, \h0d, \h4c>>,
     <<\h4c, \hc5, \hd4, \hbe, \hcb, \h3e, \h42, \hb6>>,
     <<\h59, \h7f, \h29, \h9c, \hfc, \h65, \h7e, \h2a>>,
     <<\h5f, \hcb, \h6f, \hab, \h3a, \hd6, \hfa, \hec>>,
     <<\h6c, \h44, \h19, \h8c, \h4a, \h47, \h58, \h17>> >>

\* the working variable (a..h as 1..8) that is the macro's j-th argument
\* (vA..vH as 0..7) at step t of the unrolled form: the arguments are rotated
\* by one place per step, (a,b,c,d,e,f,g,h), (h,a,b,c,d,e,f,g), ...
StepArg(j, t) == ((j + 8 * 10 - t) % 8) + 1

\* the cyclic buffer after the assignment W[t & 15] = ... of step t
StepW(W, data, t) ==
  [W EXCEPT ![(t % 16) + 1] =
     IF t < 16 THEN GET_W_FROM_DATA(data, t) ELSE Wgen(W, t)]

\* step t of the unrolled form (MHD_FAVOR_SMALL_CODE not defined) on
\* st = <<working variables, cyclic buffer W, t>>
UnrolledStep(st, data) ==
  LET t == st[3]
      W1 == StepW(st[2], data, t)
  IN  << SHA2STEP64(st[1], StepArg(0, t), StepArg(1, t), StepArg(2, t),
                    StepArg(3, t), StepArg(4, t), StepArg(5, t),
                    StepArg(6, t), StepArg(7, t),
                    KInline[t + 1], W1[(t % 16) + 1]),
         W1, t + 1 >>

RECURSIVE UnrolledSteps(_, _)
\* the steps from st on, up to step 79: the working variables after them
UnrolledSteps(st, data) ==
  IF st[3] = 80 THEN st[1] ELSE UnrolledSteps(UnrolledStep(st, data), data)

\* W[16] before the first step: not initialised; every slot is assigned
\* before it is read
WUninit ==
  <<Zero64, Zero64, Zero64, Zero64, Zero64, Zero64, Zero64, Zero64,
    Zero64, Zero64, Zero64, Zero64, Zero64, Zero64, Zero64, Zero64>>

\* sha512_256_transform (H, data): H after the block `data' (128 bytes)
sha512_256_transform(H, data) ==
  LET v == UnrolledSteps(<<H, WUninit, 0>>, data)
  IN  <<Add64(H[1], v[1]), Add64(H[2], v[2]), Add64(H[3], v[3]),
        Add64(H[4], v[4]), Add64(H[5], v[5]), Add64(H[6], v[6]),
        Add64(H[7], v[7]), Add64(H[8], v[8])>>


(***************************************************************************)
(* struct Sha512_256Ctx and MHD_SHA512_256_init                            *)
(***************************************************************************)
\* Initial hash values, FIPS PUB 180-4 clause 5.3.6.2
IV ==
  << <<\h22, \h31, \h21, \h94, \hFC, \h2B, \hF7, \h2C>>,
     <<\h9F, \h55, \h5F, \hA3, \hC8, \h4C, \h64, \hC2>>,
     <<\h23, \h93, \hB8, \h6B, \h6F, \h53, \hB1, \h51>>,
     <<\h96, \h38, \h77, \h19, \h59, \h40, \hEA, \hBD>>,
     <<\h96, \h28, \h3E, \hE2, \hA8, \h8E, \hFF, \hE3>>,
     <<\hBE, \h5E, \h1E, \h25, \h53, \h86, \h39, \h92>>,
     <<\h2B, \h01, \h99, \hFC, \h2C, \h85, \hB8, \hAA>>,
     <<\h0E, \hB7, \h2D, \hDC, \h81, \hC5, \h2C, \hA2>> >>

\* n bytes of value b
Fill(b, n) == SubSeq([i \in 1..n |-> b], 1, n)

\* memset (mem + off, b, n)
memset(mem, off, b, n) ==
  SubSeq(mem, 1, off) \o Fill(b, n) \o SubSeq(mem, off + n + 1, Len(mem))

\* memcpy (mem + off, src + from, n)
memcpy(mem, off, src, from, n) ==
  SubSeq(mem, 1, off) \o SubSeq(src, from + 1, from + n)
    \o SubSeq(mem, off + n + 1, Len(mem))

\* the size_t or unsigned int n as a uint64_t, 0 <= n < 2^31
ToWord64(n) ==
  <<0, 0, 0, 0, (n \div 16777216) % 256, (n \div 65536) % 256,
    (n \div 256) % 256, n % 256>>

(***************************************************************************)
(* sha512_256_transform in the other builds and on unaligned data          *)
(***************************************************************************)
\* static const uint64_t K[80] of the MHD_FAVOR_SMALL_CODE build
K ==
  << <<\h42, \h8a, \h2f, \h98, \hd7, \h28, \hae, \h22>>,
     <<\h71, \h37, \h44, \h91, \h23, \hef, \h65, \hcd>>,
     <<\hb5, \hc0, \hfb, \hcf, \hec, \h4d, \h3b, \h2f>>,
     <<\he9, \hb5, \hdb, \ha5, \h81, \h89, \hdb, \hbc>>,
     <<\h39, \h56, \hc2, \h5b, \hf3, \h48, \hb5, \h38>>,
     <<\h59, \hf1, \h11, \hf1, \hb6, \h05, \hd0, \h19>>,
     <<\h92, \h3f, \h82, \ha4, \haf, \h19, \h4f, \h9b>>,
     <<\hab, \h1c, \h5e, \hd5, \hda, \h6d, \h81, \h18>>,
     <<\hd8, \h07, \haa, \h98, \ha3, \h03, \h02, \h42>>,
     <<\h12, \h83, \h5b, \h01, \h45, \h70, \h6f, \hbe>>,
     <<\h24, \h31, \h85, \hbe, \h4e, \he4, \hb2, \h8c>>,
     <<\h55, \h0c, \h7d, \hc3, \hd5, \hff, \hb4, \he2>>,
     <<\h72, \hbe, \h5d, \h74, \hf2, \h7b, \h89, \h6f>>,
     <<\h80, \hde, \hb1, \hfe, \h3b, \h16, \h96, \hb1>>,
     <<\h9b, \hdc, \h06, \ha7, \h25, \hc7, \h12, \h35>>,
     <<\hc1, \h9b, \hf1, \h74, \hcf, \h69, \h26, \h94>>,
     <<\he4, \h9b, \h69, \hc1, \h9e, \hf1, \h4a, \hd2>>,
     <<\hef, \hbe, \h47, \h86, \h38, \h4f, \h25, \he3>>,
     <<\h0f, \hc1, \h9d, \hc6, \h8b, \h8c, \hd5, \hb5>>,
     <<\h24, \h0c, \ha1, \hcc, \h77, \hac, \h9c, \h65>>,
     <<\h2d, \he9, \h2c, \h6f, \h59, \h2b, \h02, \h75>>,
     <<\h4a, \h74, \h84, \haa, \h6e, \ha6, \he4, \h83>>,
     <<\h5c, \hb0, \ha9, \hdc, \hbd, \h41, \hfb, \hd4>>,
     <<\h76, \hf9, \h88, \hda, \h83, \h11, \h53, \hb5>>,
     <<\h98, \h3e, \h51, \h52, \hee, \h66, \hdf, \hab>>,
     <<\ha8, \h31, \hc6, \h6d, \h2d, \hb4, \h32, \h10>>,
     <<\hb0, \h03, \h27, \hc8, \h98, \hfb, \h21, \h3f>>,
     <<\hbf, \h59, \h7f, \hc7, \hbe, \hef, \h0e, \he4>>,
     <<\hc6, \he0, \h0b, \hf3, \h3d, \ha8, \h8f, \hc2>>,
     <<\hd5, \ha7, \h91, \h47, \h93, \h0a, \ha7, \h25>>,
     <<\h06, \hca, \h63, \h51, \he0, \h03, \h82, \h6f>>,
     <<\h14, \h29, \h29, \h67, \h0a, \h0e, \h6e, \h70>>,
     <<\h27, \hb7, \h0a, \h85, \h46, \hd2, \h2f, \hfc>>,
     <<\h2e, \h1b, \h21, \h38, \h5c, \h26, \hc9, \h26>>,
     <<\h4d, \h2c, \h6d, \hfc, \h5a, \hc4, \h2a, \hed>>,
     <<\h53, \h38, \h0d, \h13, \h9d, \h95, \hb3, \hdf>>,
     <<\h65, \h0a, \h73, \h54, \h8b, \haf, \h63, \hde>>,
     <<\h76, \h6a, \h0a, \hbb, \h3c, \h77, \hb2, \ha8>>,
     <<\h81, \hc2, \hc9, \h2e, \h47, \hed, \hae, \he6>>,
     <<\h92, \h72, \h2c, \h85, \h14, \h82, \h35, \h3b>>,
     <<\ha2, \hbf, \he8, \ha1, \h4c, \hf1, \h03, \h64>>,
     <<\ha8, \h1a, \h66, \h4b, \hbc, \h42, \h30, \h01>>,
     <<\hc2, \h4b, \h8b, \h70, \hd0, \hf8, \h97, \h91>>,
     <<\hc7, \h6c, \h51, \ha3, \h06, \h54, \hbe, \h30>>,
     <<\hd1, \h92, \he8, \h19, \hd6, \hef, \h52, \h18>>,
     <<\hd6, \h99, \h06, \h24, \h55, \h65, \ha9, \h10>>,
     <<\hf4, \h0e, \h35, \h85, \h57, \h71, \h20, \h2a>>,
     <<\h10, \h6a, \ha0, \h70, \h32, \hbb, \hd1, \hb8>>,
     <<\h19, \ha4, \hc1, \h16, \hb8, \hd2, \hd0, \hc8>>,
     <<\h1e, \h37, \h6c, \h08, \h51, \h41, \hab, \h53>>,
     <<\h27, \h48, \h77, \h4c, \hdf, \h8e, \heb, \h99>>,
     <<\h34, \hb0, \hbc, \hb5, \he1, \h9b, \h48, \ha8>>,
     <<\h39, \h1c, \h0c, \hb3, \hc5, \hc9, \h5a, \h63>>,
     <<\h4e, \hd8, \haa, \h4a, \he3, \h41, \h8a, \hcb>>,
     <<\h5b, \h9c, \hca, \h4f, \h77, \h63, \he3, \h73>>,
     <<\h68, \h2e, \h6f, \hf3, \hd6, \hb2, \hb8, \ha3>>,
     <<\h74, \h8f, \h82, \hee, \h5d, \hef, \hb2, \hfc>>,
     <<\h78, \ha5, \h63, \h6f, \h43, \h17, \h2f, \h60>>,
     <<\h84, \hc8, \h78, \h14, \ha1, \hf0, \hab, \h72>>,
     <<\h8c, \hc7, \h02, \h08, \h1a, \h64, \h39, \hec>>,
     <<\h90, \hbe, \hff, \hfa, \h23, \h63, \h1e, \h28>>,
     <<\ha4, \h50, \h6c, \heb, \hde, \h82, \hbd, \he9>>,
     <<\hbe, \hf9, \ha3, \hf7, \hb2, \hc6, \h79, \h15>>,
     <<\hc6, \h71, \h78, \hf2, \he3, \h72, \h53, \h2b>>,
     <<\hca, \h27, \h3e, \hce, \hea, \h26, \h61, \h9c>>,
     <<\hd1, \h86, \hb8, \hc7, \h21, \hc0, \hc2, \h07>>,
     <<\hea, \hda, \h7d, \hd6, \hcd, \he0, \heb, \h1e>>,
     <<\hf5, \h7d, \h4f, \h7f, \hee, \h6e, \hd1, \h78>>,
     <<\h06, \hf0, \h67, \haa, \h72, \h17, \h6f, \hba>>,
     <<\h0a, \h63, \h7d, \hc5, \ha2, \hc8, \h98, \ha6>>,
     <<\h11, \h3f, \h98, \h04, \hbe, \hf9, \h0d, \hae>>,
     <<\h1b, \h71, \h0b, \h35, \h13, \h1c, \h47, \h1b>>,
     <<\h28, \hdb, \h77, \hf5, \h23, \h04, \h7d, \h84>>,
     <<\h32, \hca, \hab, \h7b, \h40, \hc7, \h24, \h93>>,
     <<\h3c, \h9e, \hbe, \h0a, \h15, \hc9, \hbe, \hbc>>,
     <<\h43, \h1d, \h67, \hc4, \h9c, \h10, \h0d, \h4c>>,
     <<\h4c, \hc5, \hd4, \hbe, \hcb, \h3e, \h42, \hb6>>,
     <<\h59, \h7f, \h29, \h9c, \hfc, \h65, \h7e, \h2a>>,
     <<\h5f, \hcb, \h6f, \hab, \h3a, \hd6, \hfa, \hec>>,
     <<\h6c, \h44, \h19, \h8c, \h4a, \h47, \h58, \h17>> >>

\* (vH) = (vG); ... (vB) = (vA); (vA) = tmp_h_ on u, the working variables
\* a..g and tmp_h_ after SHA2STEP64
Reassigned(u) == <<u[8], u[1], u[2], u[3], u[4], u[5], u[6], u[7]>>
ReassignedLateE(u) == <<u[8], u[1], u[2], u[3], u[3], u[5], u[6], u[7]>>

\* SHA2STEP64RV gone wrong: vD = vC is done before vE = vD, so vE takes the
\* value of vC
SHA2STEP64RVLateE(v, kt, wt) ==
  ReassignedLateE(SHA2STEP64(v, 1, 2, 3, 4, 5, 6, 7, 8, kt, wt))

\* SHA2STEP64RV (a,b,c,d,e,f,g,h,kt,wt): SHA2STEP64 with tmp_h_ (a copy of
\* vH) in the place of vH, then all the working variables reassigned
SHA2STEP64RV(v, kt, wt) ==
  Reassigned(SHA2STEP64(v, 1, 2, 3, 4, 5, 6, 7, 8, kt, wt))

\* the 8 bytes of the uint64_t v in the memory of the host, and the uint64_t
\* that 8 bytes of the memory of the host hold
HostBytes(v, big_endian) ==
  IF big_endian THEN v
  ELSE <<v[8], v[7], v[6], v[5], v[4], v[3], v[2], v[1]>>

\* W[i] read from the 128 bytes wmem of uint64_t W[16]
LoadW(wmem, i, big_endian) ==
  HostBytes(SubSeq(wmem, 8 * i + 1, 8 * i + 8), big_endian)

\* W[i] = v
StoreW(wmem, i, v, big_endian) ==
  SubSeq(wmem, 1, 8 * i) \o HostBytes(v, big_endian)
    \o SubSeq(wmem, 8 * i + 9, Len(wmem))

\* the 16 elements of W
WValues(wmem, big_endian) ==
  <<LoadW(wmem, 0, big_endian), LoadW(wmem, 1, big_endian),
    LoadW(wmem, 2, big_endian), LoadW(wmem, 3, big_endian),
    LoadW(wmem, 4, big_endian), LoadW(wmem, 5, big_endian),
    LoadW(wmem, 6, big_endian), LoadW(wmem, 7, big_endian),
    LoadW(wmem, 8, big_endian), LoadW(wmem, 9, big_endian),
    LoadW(wmem, 10, big_endian), LoadW(wmem, 11, big_endian),
    LoadW(wmem, 12, big_endian), LoadW(wmem, 13, big_endian),
    LoadW(wmem, 14, big_endian), LoadW(wmem, 15, big_endian)>>

\* the memory of W[16] before anything is stored in it
WJunk == Fill(165, SHA512_256_BLOCK_SIZE)

\* A way the transform is built and called, cfg:
\*   small_code       MHD_FAVOR_SMALL_CODE is defined
\*   big_endian       _MHD_BYTE_ORDER == _MHD_BIG_ENDIAN
\*   allow_unaligned  _MHD_GET_64BIT_BE_ALLOW_UNALIGNED is defined
\*   aligned          ((uintptr_t) data) % _MHD_UINT64_ALIGN is 0
\* the unaligned input is copied to W and data is made to point to W
CopiedToW(cfg) == ~cfg.allow_unaligned /\ ~cfg.aligned

\* the test for W used as it is gone wrong: made on hosts of any byte order
WInHostOrderAnyHost(cfg) == ~cfg.small_code /\ CopiedToW(cfg)

\* the unrolled code on a big-endian host, (const void *) W == data: the
\* first 16 steps take W[t] as it is
WInHostOrder(cfg) ==
  ~cfg.small_code /\ cfg.big_endian /\ CopiedToW(cfg)

\* wt = (W[i] = val): <<the memory of W after it, wt>>
AssignW(wmem, i, val, big_endian) == <<StoreW(wmem, i, val, big_endian), val>>

\* the wt argument of step t and the memory of W after it: <<wmem, wt>>
StepWt(cfg, wmem, data, t) ==
  IF t < 16
  THEN IF WInHostOrder(cfg)
       THEN <<wmem, LoadW(wmem, t, cfg.big_endian)>>
       ELSE AssignW(wmem, t,
                    GET_W_FROM_DATA(IF CopiedToW(cfg) THEN wmem ELSE data, t),
                    cfg.big_endian)
  ELSE AssignW(wmem, t % 16, Wgen(WValues(wmem, cfg.big_endian), t),
               cfg.big_endian)

\* step t on the working variables v, w = <<memory of W, wt>> being what
\* the wt argument made: <<working variables, memory of W, t + 1>>
StepOn(cfg, v, w, t) ==
  << IF cfg.small_code
     THEN SHA2STEP64RV(v, K[t + 1], w[2])
     ELSE SHA2STEP64(v, StepArg(0, t), StepArg(1, t), StepArg(2, t),
                     StepArg(3, t), StepArg(4, t), StepArg(5, t),
                     StepArg(6, t), StepArg(7, t), KInline[t + 1], w[2]),
     w[1], t + 1 >>

\* step t on st = <<working variables, memory of W, t>>
TransformStep(cfg, st, data) ==
  StepOn(cfg, st[1], StepWt(cfg, st[2], data, st[3]), st[3])

\* H[0] += a; ... H[7] += h
FeedForward(H, v) ==
  <<Add64(H[1], v[1]), Add64(H[2], v[2]), Add64(H[3], v[3]),
    Add64(H[4], v[4]), Add64(H[5], v[5]), Add64(H[6], v[6]),
    Add64(H[7], v[7]), Add64(H[8], v[8])>>

RECURSIVE TransformSteps(_, _, _)
\* the steps from st on, up to step 79: the working variables after them
TransformSteps(cfg, st, data) ==
  IF st[3] = 80 THEN st[1]
  ELSE TransformSteps(cfg, TransformStep(cfg, st, data), data)

\* sha512_256_transform (H, data) as built and called in the way cfg
TransformOn(cfg, H, data) ==
  FeedForward(H,
    TransformSteps(cfg,
      <<H,
        IF CopiedToW(cfg)
        THEN memcpy(WJunk, 0, data, 0, SHA512_256_BLOCK_SIZE)
        ELSE WJunk,
        0>>,
      data))

\* the initial hash value of plain SHA-512
IVSha512 ==
  << <<\h6A, \h09, \hE6, \h67, \hF3, \hBC, \hC9, \h08>>,
     <<\hBB, \h67, \hAE, \h85, \h84, \hCA, \hA7, \h3B>>,
     <<\h3C, \h6E, \hF3, \h72, \hFE, \h94, \hF8, \h2B>>,
     <<\hA5, \h4F, \hF5, \h3A, \h5F, \h1D, \h36, \hF1>>,
     <<\h51, \h0E, \h52, \h7F, \hAD, \hE6, \h82, \hD1>>,
     <<\h9B, \h05, \h68, \h8C, \h2B, \h3E, \h6C, \h1F>>,
     <<\h1F, \h83, \hD9, \hAB, \hFB, \h41, \hBD, \h6B>>,
     <<\h5B, \hE0, \hCD, \h19, \h13, \h7E, \h21, \h79>> >>

\* the init gone wrong: H set to the initial hash value of plain SHA-512
InitCtxSha512(c) ==
  [c EXCEPT !.H = IVSha512, !.count = Zero64, !.count_bits_hi = Zero64]

\* the init gone wrong: the high part of the number of bits is not reset
InitCtxKeepsBitsHi(c) ==
  [c EXCEPT !.H = IV, !.count = Zero64]

\* MHD_SHA512_256_init (ctx): H and the two counters are set, the buffer is
\* left as it was
InitCtx(c) ==
  [c EXCEPT !.H = IV, !.count = Zero64, !.count_bits_hi = Zero64]

(***************************************************************************)
(* MHD_SHA512_256_update                                                   *)
(***************************************************************************)
\* bytes_have = (unsigned int) (ctx->count & (SHA512_256_BLOCK_SIZE - 1))
BytesHave(count) == count[8] % SHA512_256_BLOCK_SIZE

\* the mask gone wrong: one bit too wide, 0x3FFFFFFFFFFFFFFF
CountMaskWide == <<\h3F, \hFF, \hFF, \hFF, \hFF, \hFF, \hFF, \hFF>>

\* UINT64_C (0x1FFFFFFFFFFFFFFF)
CountMask == <<\h1F, \hFF, \hFF, \hFF, \hFF, \hFF, \hFF, \hFF>>

\* ctx->count += length and the move of its high part to count_bits_hi;
\* length is a size_t of 64 bits, given as a uint64_t
UpdateCount(c, length) ==
  LET count1 == Add64(c.count, length)
      count_hi == Shr64(count1, 61)
  IN  IF count_hi # Zero64
      THEN [c EXCEPT !.count_bits_hi = Add64(c.count_bits_hi, count_hi),
                     !.count = And64(count1, CountMask)]
      ELSE [c EXCEPT !.count = count1]

\* the top-up gone wrong: when the block is not completed, the rest of the
\* buffer is cleared
UpdateTopUpClearsRest(r, data) ==
  LET bytes_left == SHA512_256_BLOCK_SIZE - r.bytes_have
      length == Len(data) - r.off
      buf == memcpy(r.ctx.buffer, r.bytes_have, data, r.off, bytes_left)
  IN  IF r.bytes_have # 0 /\ length >= bytes_left
      THEN [ctx |-> [r.ctx EXCEPT !.buffer = buf,
                                  !.H = sha512_256_transform(r.ctx.H, buf)],
            calls |-> Append(r.calls, buf),
            off |-> r.off + bytes_left,
            bytes_have |-> 0]
      ELSE IF r.bytes_have # 0
      THEN [r EXCEPT !.ctx.buffer =
                       memset(r.ctx.buffer, r.bytes_have, 0, bytes_left)]
      ELSE r

\* the top-up gone wrong: bytes_have is not reset after the buffered block
\* is transformed, so the tail is stored past the start of the buffer
UpdateTopUpKeepsHave(r, data) ==
  LET bytes_left == SHA512_256_BLOCK_SIZE - r.bytes_have
      length == Len(data) - r.off
      buf == memcpy(r.ctx.buffer, r.bytes_have, data, r.off, bytes_left)
  IN  IF r.bytes_have # 0 /\ length >= bytes_left
      THEN [ctx |-> [r.ctx EXCEPT !.buffer = buf,
                                  !.H = sha512_256_transform(r.ctx.H, buf)],
            calls |-> Append(r.calls, buf),
            off |-> r.off + bytes_left,
            bytes_have |-> r.bytes_have]
      ELSE r

\* if (0 != bytes_have) { ... }: the buffered bytes completed to a block by
\* the first bytes of data and transformed.  r = [ctx, calls, off, bytes_have]:
\* the context, the blocks passed to sha512_256_transform so far, the offset
\* of `data' in the caller's bytes and bytes_have
UpdateTopUp(r, data) ==
  LET bytes_left == SHA512_256_BLOCK_SIZE - r.bytes_have
      length == Len(data) - r.off
      buf == memcpy(r.ctx.buffer, r.bytes_have, data, r.off, bytes_left)
  IN  IF r.bytes_have # 0 /\ length >= bytes_left
      THEN [ctx |-> [r.ctx EXCEPT !.buffer = buf,
                                  !.H = sha512_256_transform(r.ctx.H, buf)],
            calls |-> Append(r.calls, buf),
            off |-> r.off + bytes_left,
            bytes_have |-> 0]
      ELSE r

\* the loop condition gone wrong: a last full block is left to the tail copy
MoreBlocksStrict(r, data) == SHA512_256_BLOCK_SIZE < Len(data) - r.off

\* SHA512_256_BLOCK_SIZE <= length
MoreBlocks(r, data) == SHA512_256_BLOCK_SIZE <= Len(data) - r.off

\* the body of the loop gone wrong: data and length are left as they were
UpdateOneBlockNoAdvance(r, data) ==
  LET block == SubSeq(data, r.off + 1, r.off + SHA512_256_BLOCK_SIZE)
  IN  [ctx |-> [r.ctx EXCEPT !.H = sha512_256_transform(r.ctx.H, block)],
       calls |-> Append(r.calls, block),
       off |-> r.off,
       bytes_have |-> r.bytes_have]

\* the body of the loop: one full block of data transformed where it is
UpdateOneBlock(r, data) ==
  LET block == SubSeq(data, r.off + 1, r.off + SHA512_256_BLOCK_SIZE)
  IN  [ctx |-> [r.ctx EXCEPT !.H = sha512_256_transform(r.ctx.H, block)],
       calls |-> Append(r.calls, block),
       off |-> r.off + SHA512_256_BLOCK_SIZE,
       bytes_have |-> r.bytes_have]

RECURSIVE UpdateFullBlocks(_, _)
\* while (SHA512_256_BLOCK_SIZE <= length) { ... }: the full blocks of data
\* transformed where they are
UpdateFullBlocks(r, data) ==
  IF MoreBlocks(r, data)
  THEN UpdateFullBlocks(UpdateOneBlock(r, data), data)
  ELSE r

\* the tail copy gone wrong: the rest of the buffer is cleared after the
\* copied bytes
UpdateTailClearsRest(r, data) ==
  LET length == Len(data) - r.off
  IN  IF length # 0
      THEN [r EXCEPT !.ctx.buffer =
                       memset(memcpy(r.ctx.buffer, r.bytes_have, data, r.off, length),
                              r.bytes_have + length, 0,
                              SHA512_256_BLOCK_SIZE - r.bytes_have - length),
                     !.off = r.off + length]
      ELSE r

\* the tail copy gone wrong: the bytes are stored at the start of the
\* buffer, over the bytes already held
UpdateTailAtStart(r, data) ==
  LET length == Len(data) - r.off
  IN  IF length # 0
      THEN [r EXCEPT !.ctx.buffer =
                       memcpy(r.ctx.buffer, 0, data, r.off, length),
                     !.off = r.off + length]
      ELSE r

\* if (0 != length) memcpy (buffer + bytes_have, data, length)
UpdateTail(r, data) ==
  LET length == Len(data) - r.off
  IN  IF length # 0
      THEN [r EXCEPT !.ctx.buffer =
                       memcpy(r.ctx.buffer, r.bytes_have, data, r.off, length),
                     !.off = r.off + length]
      ELSE r

\* MHD_SHA512_256_update (ctx, data, length) with length = Len(data), built
\* without MHD_FAVOR_SMALL_CODE: [ctx, calls, ...], the context after the call
\* and the blocks it passed to sha512_256_transform, in order
UpdateCtx(c, data) ==
  IF Len(data) = 0
  THEN [ctx |-> c, calls |-> <<>>, off |-> 0, bytes_have |-> BytesHave(c.count)]
  ELSE UpdateTail(
         UpdateFullBlocks(
           UpdateTopUp([ctx |-> UpdateCount(c, ToWord64(Len(data))),
                        calls |-> <<>>,
                        off |-> 0,
                        bytes_have |-> BytesHave(c.count)],
                       data),
           data),
         data)

(***************************************************************************)
(* MHD_SHA512_256_finish                                                   *)
(***************************************************************************)
\* the padding gone wrong: an extra block is made also when the length
\* exactly fits after the 0x80 byte
FinishPadOffByOne(r) ==
  LET buf1 == memset(r.ctx.buffer, r.bytes_have, 128, 1)
      have1 == r.bytes_have + 1
      buf2 == IF have1 < SHA512_256_BLOCK_SIZE
              THEN memset(buf1, have1, 0, SHA512_256_BLOCK_SIZE - have1)
              ELSE buf1
  IN  IF SHA512_256_BLOCK_SIZE - have1 <= SHA512_256_SIZE_OF_LEN_ADD
      THEN [ctx |-> [r.ctx EXCEPT !.buffer = buf2,
                                  !.H = sha512_256_transform(r.ctx.H, buf2)],
            calls |-> Append(r.calls, buf2),
            bytes_have |-> 0]
      ELSE [r EXCEPT !.ctx.buffer = buf1, !.bytes_have = have1]

\* the padding gone wrong: the block is never flushed, the length is taken
\* to fit after the 0x80 byte wherever that byte is
FinishPadNeverFlushes(r) ==
  [r EXCEPT !.ctx.buffer = memset(r.ctx.buffer, r.bytes_have, 128, 1),
            !.bytes_have = r.bytes_have + 1]

\* the padding gone wrong: when the length does not fit, the block is
\* transformed with what the buffer holds after the 0x80 byte
FinishPadKeepsRest(r) ==
  LET buf1 == memset(r.ctx.buffer, r.bytes_have, 128, 1)
      have1 == r.bytes_have + 1
  IN  IF SHA512_256_BLOCK_SIZE - have1 < SHA512_256_SIZE_OF_LEN_ADD
      THEN [ctx |-> [r.ctx EXCEPT !.buffer = buf1,
                                  !.H = sha512_256_transform(r.ctx.H, buf1)],
            calls |-> Append(r.calls, buf1),
            bytes_have |-> 0]
      ELSE [r EXCEPT !.ctx.buffer = buf1, !.bytes_have = have1]

\* ((uint8_t *) ctx->buffer)[bytes_have++] = 0x80 and, when the length does
\* not fit in the block, the block zero-padded and transformed.
\* r = [ctx, calls, bytes_have] as in the update
FinishPad(r) ==
  LET buf1 == memset(r.ctx.buffer, r.bytes_have, 128, 1)
      have1 == r.bytes_have + 1
      buf2 == IF have1 < SHA512_256_BLOCK_SIZE
              THEN memset(buf1, have1, 0, SHA512_256_BLOCK_SIZE - have1)
              ELSE buf1
  IN  IF SHA512_256_BLOCK_SIZE - have1 < SHA512_256_SIZE_OF_LEN_ADD
      THEN [ctx |-> [r.ctx EXCEPT !.buffer = buf2,
                                  !.H = sha512_256_transform(r.ctx.H, buf2)],
            calls |-> Append(r.calls, buf2),
            bytes_have |-> 0]
      ELSE [r EXCEPT !.ctx.buffer = buf1, !.bytes_have = have1]

\* the two halves of the number of bits put big-endian in the last two
\* words of the buffer: the high part first
PutLength(buf, count_bits_hi, num_bits) ==
  MHD_PUT_64BIT_BE(
    MHD_PUT_64BIT_BE(buf,
      SHA512_256_BYTES_IN_WORD * (SHA512_256_BLOCK_SIZE_WORDS - 2),
      count_bits_hi),
    SHA512_256_BYTES_IN_WORD * (SHA512_256_BLOCK_SIZE_WORDS - 1),
    num_bits)

\* the final block gone wrong: the buffer is not zeroed before the length
\* is put in its last 16 bytes
FinishLengthNoZeros(r, num_bits) ==
  LET buf2 == PutLength(r.ctx.buffer, r.ctx.count_bits_hi, num_bits)
  IN  [ctx |-> [r.ctx EXCEPT !.buffer = buf2,
                             !.H = sha512_256_transform(r.ctx.H, buf2)],
       calls |-> Append(r.calls, buf2),
       bytes_have |-> r.bytes_have]

\* the rest of the buffer zeroed, the length put in its last 16 bytes and
\* the final block transformed
FinishLength(r, num_bits) ==
  LET buf1 == memset(r.ctx.buffer, r.bytes_have, 0,
                     SHA512_256_BLOCK_SIZE - SHA512_256_SIZE_OF_LEN_ADD
                       - r.bytes_have)
      buf2 == PutLength(buf1, r.ctx.count_bits_hi, num_bits)
  IN  [ctx |-> [r.ctx EXCEPT !.buffer = buf2,
                             !.H = sha512_256_transform(r.ctx.H, buf2)],
       calls |-> Append(r.calls, buf2),
       bytes_have |-> r.bytes_have]

\* the digest stored word by word at the destination (the destination is
\* aligned, or _MHD_PUT_64BIT_BE_UNALIGNED)
PutDigestDirect(digest, H) ==
  MHD_PUT_64BIT_BE(
    MHD_PUT_64BIT_BE(
      MHD_PUT_64BIT_BE(
        MHD_PUT_64BIT_BE(digest, 0 * SHA512_256_BYTES_IN_WORD, H[1]),
        1 * SHA512_256_BYTES_IN_WORD, H[2]),
      2 * SHA512_256_BYTES_IN_WORD, H[3]),
    3 * SHA512_256_BYTES_IN_WORD, H[4])

\* the copy from the temporary gone wrong: SHA512_256_DIGEST_SIZE_WORDS
\* bytes are copied in place of SHA512_256_DIGEST_SIZE
PutDigestViaTempShort(digest, H, alig_dgst) ==
  memcpy(digest, 0,
         MHD_PUT_64BIT_BE(
           MHD_PUT_64BIT_BE(
             MHD_PUT_64BIT_BE(
               MHD_PUT_64BIT_BE(alig_dgst, 0 * SHA512_256_BYTES_IN_WORD, H[1]),
               1 * SHA512_256_BYTES_IN_WORD, H[2]),
             2 * SHA512_256_BYTES_IN_WORD, H[3]),
           3 * SHA512_256_BYTES_IN_WORD, H[4]),
         0, SHA512_256_DIGEST_SIZE_WORDS)

\* the digest stored in the aligned temporary alig_dgst (not initialised
\* before) and copied to the destination
PutDigestViaTemp(digest, H, alig_dgst) ==
  memcpy(digest, 0,
         MHD_PUT_64BIT_BE(
           MHD_PUT_64BIT_BE(
             MHD_PUT_64BIT_BE(
               MHD_PUT_64BIT_BE(alig_dgst, 0 * SHA512_256_BYTES_IN_WORD, H[1]),
               1 * SHA512_256_BYTES_IN_WORD, H[2]),
             2 * SHA512_256_BYTES_IN_WORD, H[3]),
           3 * SHA512_256_BYTES_IN_WORD, H[4]),
         0, SHA512_256_DIGEST_SIZE)

\* memset (ctx, 0, sizeof(struct Sha512_256Ctx))
ZeroCtx ==
  [H |-> <<Zero64, Zero64, Zero64, Zero64, Zero64, Zero64, Zero64, Zero64>>,
   buffer |-> Fill(0, SHA512_256_BLOCK_SIZE),
   count |-> Zero64,
   count_bits_hi |-> Zero64]

\* MHD_SHA512_256_finish up to the final sha512_256_transform:
\* [ctx, calls, bytes_have] with the context before it is erased and the
\* blocks passed to sha512_256_transform
FinishRun(c) ==
  FinishLength(FinishPad([ctx |-> c, calls |-> <<>>,
                          bytes_have |-> BytesHave(c.count)]),
               Shl64(c.count, 3))

\* the caller's digest array after MHD_SHA512_256_finish.  `digest' is the
\* array before the call, `aligned' whether its address is a multiple of
\* _MHD_UINT64_ALIGN, `tmp' what the temporary holds before it is written
StoreDigest(H, digest, aligned, tmp) ==
  IF aligned THEN PutDigestDirect(digest, H)
  ELSE PutDigestViaTemp(digest, H, tmp)

\* the erasure gone wrong: memset (ctx, 0, sizeof(ctx)), the size of a
\* pointer, erases H[0] only
FinishCtxPointerSize(c) == [c EXCEPT !.H = [c.H EXCEPT ![1] = Zero64]]

\* the context after MHD_SHA512_256_finish
FinishCtx(c) == ZeroCtx

(***************************************************************************)
(* The callers: contexts, the bytes they hash and what they observe        *)
(***************************************************************************)
\* bound: the longest message hashed
MaxLen == 260

\* the places where a caller may cut its message into update calls
Cuts == {0, 1, 3, 111, 112, 127, 128, 129, 256, 257, MaxLen}

\* the messages are the prefixes of two byte streams: "abcdefgh...z" repeated,
\* and a stream of bytes above 0x7f
Streams == {1, 2}
StreamByte(s, i) == IF s = 1 THEN 97 + (i % 26) ELSE 255 - ((i * 7) % 128)
Stream(s, n) == SubSeq([i \in 1..n |-> StreamByte(s, i - 1)], 1, n)

\* what memory that was never written may hold: every byte b
JunkBytes == {0, 165}
JunkCtx(b) ==
  [H |-> Fill(Fill(b, 8), SHA512_256_HASH_SIZE_WORDS),
   buffer |-> Fill(b, SHA512_256_BLOCK_SIZE),
   count |-> Fill(b, 8),
   count_bits_hi |-> Fill(b, 8)]

VARIABLES
  ctx,      \* ctx[c]: the struct Sha512_256Ctx of context c
  pc,       \* pc[c]: "uninit", "ready" (after init), "done" (after finish)
  src,      \* src[c]: the stream the caller of c hashes
  msg,      \* msg[c]: the bytes given to update since the last init
  multi,    \* multi[c]: more than one non-empty update call since the init
  xlog,     \* xlog[c]: the blocks passed to sha512_256_transform since then
  digest,   \* digest[c]: the caller's digest array, <<>> before finish
  Hlast,    \* Hlast[c]: ctx->H when finish took the digest from it
  dalign,   \* dalign[c]: whether the digest array was aligned
  cnt,      \* the two byte counters under updates of any size_t length,
            \* and the number of those updates
  total,    \* the number of bytes those updates supplied (128 bits)
  lenfield, \* the length field finish writes for those counters
  build,    \* the build: MHD_FAVOR_SMALL_CODE defined or not, mhd_assert
            \* checked or not
  loc,      \* the call in progress when calls are run statement by
            \* statement: the place in the code and the local variables
  tr,       \* one state H and one block, and what sha512_256_transform
            \* made of them in the builds and alignments run so far
  put,      \* the run of test_put_broken_len: the place in performTest,
            \* the connection and what the client and the handler saw
  mix,      \* three words x, y, z and what the macros Ch and Maj made of
            \* them
  stale     \* what ctx->buffer held when MHD_SHA512_256_init was last
            \* called, and where that content came from

vars == <<ctx, pc, src, msg, multi, xlog, digest, Hlast, dalign,
          cnt, total, lenfield, build, loc, tr, put, mix, stale>>

counters == <<cnt, total, lenfield>>
hashing == <<ctx, pc, src, msg, multi, xlog, digest, Hlast, dalign>>
others == <<counters, build, loc, tr, put, mix, stale>>

\* the build the whole-call runs are made with: the unrolled code with the
\* zero-length shortcut
DefaultBuild == [small_code |-> FALSE, asserts |-> TRUE]

\* no call in progress
LocIdle ==
  [at |-> "idle", c |-> "", data |-> <<>>, n |-> 0, null |-> FALSE, off |-> 0,
   bytes_have |-> 0, iters |-> 0, num_bits |-> Zero64, aligned |-> TRUE]

\* no transform run; W, t and stored are the cyclic buffer W[16] of a
\* transform followed step by step, the step to come, and the words
\* assigned to W so far, in order
TrIdle ==
  [H |-> <<>>, data |-> <<>>, out |-> <<>>, W |-> WUninit, t |-> 0,
   stored |-> <<>>]

\* Ch and Maj not applied
MixIdle == [x |-> Zero64, y |-> Zero64, z |-> Zero64, ch |-> <<>>, maj |-> <<>>]

\* the content of the buffer at the last init not recorded
StaleIdle == [kind |-> "none", buffer |-> <<>>]

\* test_put_broken_len not run: HTTP/1.1 or HTTP/1.0 requests (oneone), the
\* place in performTest and the request in progress, whether multi_reuse
\* holds a multi handle and which, whether that handle has a connection to
\* the daemon, the response on its way, and for each request made: the multi
\* handle used, whether a connection was opened for it, the result libcurl
\* gave, the response code; the calls of ahcCheck, `failed', the value
\* performTest returns; whether MHD_is_feature_supported answered that the
\* bind port is detected, the port given to MHD_start_daemon (-1: not
\* started) and the port given to setupCURL
PutIdle ==
  [oneone |-> TRUE, at |-> "off", rq |-> 0, multi |-> FALSE, handle |-> 0,
   conn |-> FALSE, resp |-> 0, handles |-> <<>>, opened |-> <<>>,
   results |-> <<>>, codes |-> <<>>, ahc |-> <<>>, failed |-> 0, ret |-> -1,
   autodetect |-> FALSE, daemon_port |-> -1, port |-> -1]

Zero128 == Fill(0, 16)

CountersIdle ==
  /\ cnt = [count |-> Zero64, count_bits_hi |-> Zero64, calls |-> 0]
  /\ total = Zero128
  /\ lenfield = <<>>

\* the contexts of C declared and not initialised, their memory holding one
\* of the bytes of J
Declared(C, J) ==
  /\ ctx \in [C -> {JunkCtx(b) : b \in J}]
  /\ pc = [c \in C |-> "uninit"]
  /\ src = [c \in C |-> 1]
  /\ msg = [c \in C |-> <<>>]
  /\ multi = [c \in C |-> FALSE]
  /\ xlog = [c \in C |-> <<>>]
  /\ digest = [c \in C |-> <<>>]
  /\ Hlast = [c \in C |-> <<>>]
  /\ dalign = [c \in C |-> TRUE]

\* the state with the contexts of C declared and not initialised
InitOf(C, J) ==
  /\ Declared(C, J)
  /\ CountersIdle
  /\ build = DefaultBuild
  /\ loc = LocIdle
  /\ tr = TrIdle
  /\ put = PutIdle
  /\ mix = MixIdle
  /\ stale = StaleIdle

Init == InitOf({"A"}, JunkBytes)

\* the caller of c calls MHD_SHA512_256_init and will hash stream s
DoInit(c, s) ==
  /\ pc[c] \in {"uninit", "done"}
  /\ ctx' = [ctx EXCEPT ![c] = InitCtx(ctx[c])]
  /\ pc' = [pc EXCEPT ![c] = "ready"]
  /\ src' = [src EXCEPT ![c] = s]
  /\ msg' = [msg EXCEPT ![c] = <<>>]
  /\ multi' = [multi EXCEPT ![c] = FALSE]
  /\ xlog' = [xlog EXCEPT ![c] = <<>>]
  /\ digest' = [digest EXCEPT ![c] = <<>>]
  /\ Hlast' = [Hlast EXCEPT ![c] = <<>>]
  /\ dalign' = [dalign EXCEPT ![c] = TRUE]
  /\ UNCHANGED others

\* the update gone wrong: the block buffer is one static array that all
\* contexts share
DoUpdateSharedBuffer(c, p) ==
  /\ pc[c] = "ready"
  /\ p >= Len(msg[c])
  /\ \E data \in {SubSeq(Stream(src[c], p), Len(msg[c]) + 1, p)} :
       /\ \E r \in {UpdateCtx(ctx[c], data)} :
            /\ ctx' = [d \in DOMAIN ctx |->
                         IF d = c THEN r.ctx
                         ELSE [ctx[d] EXCEPT !.buffer = r.ctx.buffer]]
            /\ xlog' = [xlog EXCEPT ![c] = @ \o r.calls]
       /\ msg' = [msg EXCEPT ![c] = @ \o data]
       /\ multi' = [multi EXCEPT ![c] = @ \/ (Len(msg[c]) > 0 /\ Len(data) > 0)]
  /\ UNCHANGED <<pc, src, digest, Hlast, dalign, others>>

\* the caller of c calls MHD_SHA512_256_update with the bytes of its stream
\* up to place p
DoUpdate(c, p) ==
  /\ pc[c] = "ready"
  /\ p >= Len(msg[c])
  /\ \E data \in {SubSeq(Stream(src[c], p), Len(msg[c]) + 1, p)} :
       /\ \E r \in {UpdateCtx(ctx[c], data)} :
            /\ ctx' = [ctx EXCEPT ![c] = r.ctx]
            /\ xlog' = [xlog EXCEPT ![c] = @ \o r.calls]
       /\ msg' = [msg EXCEPT ![c] = @ \o data]
       /\ multi' = [multi EXCEPT ![c] = @ \/ (Len(msg[c]) > 0 /\ Len(data) > 0)]
  /\ UNCHANGED <<pc, src, digest, Hlast, dalign, others>>

\* the caller of c calls MHD_SHA512_256_finish with a digest array that is
\* aligned or not; the array and the temporary hold junk before
DoFinish(c) ==
  /\ pc[c] = "ready"
  /\ \E r \in {FinishRun(ctx[c])} :
       /\ \E aligned \in BOOLEAN, b \in JunkBytes :
            /\ digest' = [digest EXCEPT ![c] =
                 StoreDigest(r.ctx.H, Fill(b, SHA512_256_DIGEST_SIZE),
                             aligned, Fill(b, SHA512_256_DIGEST_SIZE))]
            /\ dalign' = [dalign EXCEPT ![c] = aligned]
       /\ ctx' = [ctx EXCEPT ![c] = FinishCtx(r.ctx)]
       /\ xlog' = [xlog EXCEPT ![c] = @ \o r.calls]
       /\ Hlast' = [Hlast EXCEPT ![c] = r.ctx.H]
  /\ pc' = [pc EXCEPT ![c] = "done"]
  /\ UNCHANGED <<src, msg, multi, others>>

Next ==
  \/ \E s \in Streams : DoInit("A", s)
  \/ \E p \in Cuts : DoUpdate("A", p)
  \/ DoFinish("A")

Spec == Init /\ [][Next]_vars

(***************************************************************************)
(* A context initialised at any time: declared and never written, in the   *)
(* middle of a computation that is given up, or after finish               *)
(***************************************************************************)
\* the places where the caller cuts its stream: a few bytes that leave most
\* of the buffer as init found it, and a block followed by 112 bytes, after
\* which finish has no room for the length
StaleCuts == {0, 3, 240}

\* the caller of c calls MHD_SHA512_256_init wherever the context is, and
\* will hash stream s: the buffer keeps what it held
InitAnew(c, s) ==
  /\ stale' = [kind |-> IF pc[c] = "uninit" THEN "uninitialised"
                        ELSE IF pc[c] = "ready" THEN "abandoned"
                        ELSE "finished",
               buffer |-> ctx[c].buffer]
  /\ ctx' = [ctx EXCEPT ![c] = InitCtx(ctx[c])]
  /\ pc' = [pc EXCEPT ![c] = "ready"]
  /\ src' = [src EXCEPT ![c] = s]
  /\ msg' = [msg EXCEPT ![c] = <<>>]
  /\ multi' = [multi EXCEPT ![c] = FALSE]
  /\ xlog' = [xlog EXCEPT ![c] = <<>>]
  /\ digest' = [digest EXCEPT ![c] = <<>>]
  /\ Hlast' = [Hlast EXCEPT ![c] = <<>>]
  /\ dalign' = [dalign EXCEPT ![c] = TRUE]
  /\ UNCHANGED <<counters, build, loc, tr, put, mix>>

NextStale ==
  \/ \E s \in Streams : InitAnew("A", s)
  \/ \E p \in StaleCuts : DoUpdate("A", p)
  \/ DoFinish("A")

\* the context declared, its memory holding the byte 0xA5 throughout
InitStale == InitOf({"A"}, {165})

SpecStale == InitStale /\ [][NextStale]_vars

(***************************************************************************)
(* Two contexts driven by two callers, in any interleaving                 *)
(***************************************************************************)
IsoCuts == {0, 3, 131}

InitIso == InitOf({"A", "B"}, {165})

NextIso ==
  \E c \in {"A", "B"} :
    \/ DoInit(c, IF c = "A" THEN 1 ELSE 2)
    \/ \E p \in IsoCuts : DoUpdate(c, p)
    \/ DoFinish(c)

SpecIso == InitIso /\ [][NextIso]_vars

(***************************************************************************)
(* The byte counters under update calls of any length a size_t of 64 bits  *)
(* can hold.  Such data cannot be written out, so only the statements of   *)
(* update and finish that act on the counters are run.                     *)
(***************************************************************************)
\* bound: the number of update calls
MaxCountCalls == 3

\* lengths of update calls: 0, 1, 128, 2^61 - 1, 2^61, 2^63, 2^64 - 1
HugeLens ==
  { Zero64, ToWord64(1), ToWord64(128),
    <<\h1F, \hFF, \hFF, \hFF, \hFF, \hFF, \hFF, \hFF>>,
    <<\h20, 0, 0, 0, 0, 0, 0, 0>>,
    <<\h80, 0, 0, 0, 0, 0, 0, 0>>,
    <<\hFF, \hFF, \hFF, \hFF, \hFF, \hFF, \hFF, \hFF>> }

RECURSIVE AddBytesFrom(_, _, _, _)
\* the bytes 1..i of x + y, given the carry into byte i
AddBytesFrom(x, y, i, carry) ==
  IF i = 0 THEN <<>>
  ELSE Append(AddBytesFrom(x, y, i - 1, (x[i] + y[i] + carry) \div 256),
              (x[i] + y[i] + carry) % 256)

\* x + y on big-endian numbers of Len(x) bytes
AddBytes(x, y) == AddBytesFrom(x, y, Len(x), 0)

\* x * 2^n on a big-endian number of Len(x) bytes
ShlBytes(x, n) ==
  SubSeq([i \in 1..Len(x) |->
            (((IF i + (n \div 8) <= Len(x) THEN x[i + (n \div 8)] ELSE 0)
                * (2 ^ (n % 8))) % 256)
            + ((IF i + (n \div 8) + 1 <= Len(x) THEN x[i + (n \div 8) + 1] ELSE 0)
                 \div (2 ^ (8 - (n % 8))))],
         1, Len(x))

InitCount ==
  /\ ctx = <<>> /\ pc = <<>> /\ src = <<>> /\ msg = <<>> /\ multi = <<>>
  /\ xlog = <<>> /\ digest = <<>> /\ Hlast = <<>> /\ dalign = <<>>
  /\ CountersIdle
  /\ build = DefaultBuild
  /\ loc = LocIdle
  /\ tr = TrIdle
  /\ put = PutIdle
  /\ mix = MixIdle
  /\ stale = StaleIdle

\* MHD_SHA512_256_init: the counters
CountInit ==
  /\ lenfield # <<>>
  /\ cnt' = [count |-> Zero64, count_bits_hi |-> Zero64, calls |-> 0]
  /\ total' = Zero128
  /\ lenfield' = <<>>
  /\ UNCHANGED <<hashing, build, loc, tr, put, mix, stale>>

\* MHD_SHA512_256_update with `length' bytes: the counters
CountUpdate(length) ==
  /\ lenfield = <<>>
  /\ cnt.calls < MaxCountCalls
  /\ cnt' = [UpdateCount(cnt, length) EXCEPT !.calls = @ + 1]
  /\ total' = AddBytes(total, Zero64 \o length)
  /\ UNCHANGED <<lenfield, hashing, build, loc, tr, put, mix, stale>>

\* MHD_SHA512_256_finish: the length field of the final block, and the
\* counters erased
CountFinish ==
  /\ lenfield = <<>>
  /\ lenfield' = SubSeq(PutLength(Fill(0, SHA512_256_BLOCK_SIZE),
                                  cnt.count_bits_hi, Shl64(cnt.count, 3)),
                        SHA512_256_BLOCK_SIZE - SHA512_256_SIZE_OF_LEN_ADD + 1,
                        SHA512_256_BLOCK_SIZE)
  /\ cnt' = [cnt EXCEPT !.count = Zero64, !.count_bits_hi = Zero64]
  /\ UNCHANGED <<total, hashing, build, loc, tr, put, mix, stale>>

NextCount ==
  \/ CountInit
  \/ \E length \in HugeLens : CountUpdate(length)
  \/ CountFinish

SpecCount == InitCount /\ [][NextCount]_vars


(***************************************************************************)
(* One caller, its calls followed statement by statement, in each build    *)
(***************************************************************************)
\* bound: the iterations of the block loop of one call that are followed
MaxLoopSteps == 4

\* the places of the stream where the caller's updates end
StepCuts == {0, 3, 131, MaxLen}

\* the lengths the caller passes together with a null data pointer
NullLens == {0, 3}

\* the builds: with or without MHD_FAVOR_SMALL_CODE, with mhd_assert checked
\* (a debug build) or compiled out
Builds == [small_code : BOOLEAN, asserts : BOOLEAN]

\* the statements of MHD_SHA512_256_update
UpdateLabels == {"assert", "shortcut", "count", "nullread", "topup", "loop", "tail"}

\* the statements of MHD_SHA512_256_finish
FinishLabels == {"bits", "pad", "length", "digest", "erase"}

InitSteps ==
  /\ Declared({"A"}, {165})
  /\ CountersIdle
  /\ build \in Builds
  /\ loc = LocIdle
  /\ tr = TrIdle
  /\ put = PutIdle
  /\ mix = MixIdle
  /\ stale = StaleIdle

\* the caller of c calls MHD_SHA512_256_update with the bytes of its stream
\* up to place p
CallUpdate(c, p) ==
  /\ pc[c] = "ready"
  /\ p >= Len(msg[c])
  /\ pc' = [pc EXCEPT ![c] = "busy"]
  /\ loc' = [LocIdle EXCEPT !.at = "assert", !.c = c,
                            !.data = SubSeq(Stream(src[c], p), Len(msg[c]) + 1, p),
                            !.n = p - Len(msg[c])]
  /\ UNCHANGED <<ctx, src, msg, multi, xlog, digest, Hlast, dalign, counters, build, tr, put, mix, stale>>

\* the caller of c calls MHD_SHA512_256_update (ctx, NULL, n)
CallUpdateNull(c, n) ==
  /\ pc[c] = "ready"
  /\ Len(msg[c]) <= 3
  /\ pc' = [pc EXCEPT ![c] = "busy"]
  /\ loc' = [LocIdle EXCEPT !.at = "assert", !.c = c, !.null = TRUE, !.n = n]
  /\ UNCHANGED <<ctx, src, msg, multi, xlog, digest, Hlast, dalign, counters, build, tr, put, mix, stale>>

\* mhd_assert ((data != NULL) || (length == 0))
StepAssert ==
  /\ loc.at = "assert"
  /\ IF build.asserts /\ loc.null /\ loc.n # 0
     THEN /\ loc' = [loc EXCEPT !.at = "aborted"]
          /\ pc' = [pc EXCEPT ![loc.c] = "aborted"]
     ELSE /\ loc' = [loc EXCEPT !.at = "shortcut"]
          /\ UNCHANGED pc
  /\ UNCHANGED <<ctx, src, msg, multi, xlog, digest, Hlast, dalign, counters, build, tr, put, mix, stale>>

\* MHD_SHA512_256_update returns to its caller
ReturnFromUpdate ==
  /\ pc' = [pc EXCEPT ![loc.c] = "ready"]
  /\ msg' = [msg EXCEPT ![loc.c] = @ \o loc.data]
  /\ multi' = [multi EXCEPT ![loc.c] = @ \/ (Len(msg[loc.c]) > 0 /\ loc.n > 0)]
  /\ loc' = LocIdle

\* #ifndef MHD_FAVOR_SMALL_CODE  if (0 == length) return;
StepShortcut ==
  /\ loc.at = "shortcut"
  /\ IF ~build.small_code /\ loc.n = 0
     THEN ReturnFromUpdate
     ELSE /\ loc' = [loc EXCEPT !.at = "count"]
          /\ UNCHANGED <<pc, msg, multi>>
  /\ UNCHANGED <<ctx, src, xlog, digest, Hlast, dalign, counters, build, tr, put, mix, stale>>

\* bytes_have is taken from ctx->count and length is added to the counters
StepCount ==
  /\ loc.at = "count"
  /\ ctx' = [ctx EXCEPT ![loc.c] = UpdateCount(@, ToWord64(loc.n))]
  /\ loc' = [loc EXCEPT !.bytes_have = BytesHave(ctx[loc.c].count),
                        !.at = IF loc.null /\ loc.n # 0 THEN "nullread"
                               ELSE "topup"]
  /\ UNCHANGED <<pc, src, msg, multi, xlog, digest, Hlast, dalign, counters, build, tr, put, mix, stale>>

\* length bytes are about to be read through a null pointer: the behaviour
\* is undefined, the process is stopped or the read gives some bytes
StepNullRead ==
  /\ loc.at = "nullread"
  /\ \/ /\ loc' = [loc EXCEPT !.at = "crashed"]
        /\ pc' = [pc EXCEPT ![loc.c] = "crashed"]
     \/ /\ \E b \in JunkBytes :
             loc' = [loc EXCEPT !.data = Fill(b, loc.n), !.at = "topup"]
        /\ UNCHANGED pc
  /\ UNCHANGED <<ctx, src, msg, multi, xlog, digest, Hlast, dalign, counters, build, tr, put, mix, stale>>

\* the locals of the update in progress, as the statements of the update
\* take them
UpdateFrame ==
  [ctx |-> ctx[loc.c], calls |-> <<>>, off |-> loc.off,
   bytes_have |-> loc.bytes_have]

\* the update goes on at statement `at' with the locals r
Resume(r, at, iters) ==
  /\ ctx' = [ctx EXCEPT ![loc.c] = r.ctx]
  /\ xlog' = [xlog EXCEPT ![loc.c] = @ \o r.calls]
  /\ loc' = [loc EXCEPT !.off = r.off, !.bytes_have = r.bytes_have,
                        !.at = at, !.iters = iters]

\* if (0 != bytes_have) { ... }
StepTopUp ==
  /\ loc.at = "topup"
  /\ \E r \in {UpdateTopUp(UpdateFrame, loc.data)} : Resume(r, "loop", 0)
  /\ UNCHANGED <<pc, src, msg, multi, digest, Hlast, dalign, counters, build, tr, put, mix, stale>>

\* one iteration of while (SHA512_256_BLOCK_SIZE <= length)
StepLoopBody ==
  /\ loc.at = "loop"
  /\ MoreBlocks(UpdateFrame, loc.data)
  /\ loc.iters < MaxLoopSteps
  /\ \E r \in {UpdateOneBlock(UpdateFrame, loc.data)} :
       Resume(r, "loop", loc.iters + 1)
  /\ UNCHANGED <<pc, src, msg, multi, digest, Hlast, dalign, counters, build, tr, put, mix, stale>>

\* the condition of the loop is false
StepLoopExit ==
  /\ loc.at = "loop"
  /\ ~MoreBlocks(UpdateFrame, loc.data)
  /\ loc' = [loc EXCEPT !.at = "tail"]
  /\ UNCHANGED <<ctx, pc, src, msg, multi, xlog, digest, Hlast, dalign, counters, build, tr, put, mix, stale>>

\* if (0 != length) memcpy (...), and the return
StepTail ==
  /\ loc.at = "tail"
  /\ \E r \in {UpdateTail(UpdateFrame, loc.data)} :
       ctx' = [ctx EXCEPT ![loc.c] = r.ctx]
  /\ ReturnFromUpdate
  /\ UNCHANGED <<src, xlog, digest, Hlast, dalign, counters, build, tr, put, mix, stale>>

\* the caller of c calls MHD_SHA512_256_finish with a digest array that is
\* aligned or not
CallFinish(c, aligned) ==
  /\ pc[c] = "ready"
  /\ pc' = [pc EXCEPT ![c] = "busy"]
  /\ loc' = [LocIdle EXCEPT !.at = "bits", !.c = c, !.aligned = aligned]
  /\ UNCHANGED <<ctx, src, msg, multi, xlog, digest, Hlast, dalign, counters, build, tr, put, mix, stale>>

\* num_bits = ctx->count << 3; bytes_have = ctx->count & (SHA512_256_BLOCK_SIZE - 1)
StepBits ==
  /\ loc.at = "bits"
  /\ loc' = [loc EXCEPT !.num_bits = Shl64(ctx[loc.c].count, 3),
                        !.bytes_have = BytesHave(ctx[loc.c].count),
                        !.at = "pad"]
  /\ UNCHANGED <<ctx, pc, src, msg, multi, xlog, digest, Hlast, dalign, counters, build, tr, put, mix, stale>>

\* the locals of the finish in progress
FinishFrame ==
  [ctx |-> ctx[loc.c], calls |-> <<>>, bytes_have |-> loc.bytes_have]

\* the finish goes on at statement `at' with the locals r
ResumeFinish(r, at) ==
  /\ ctx' = [ctx EXCEPT ![loc.c] = r.ctx]
  /\ xlog' = [xlog EXCEPT ![loc.c] = @ \o r.calls]
  /\ loc' = [loc EXCEPT !.bytes_have = r.bytes_have, !.at = at]

\* the 0x80 byte and, when the length does not fit, the padded block
StepPad ==
  /\ loc.at = "pad"
  /\ \E r \in {FinishPad(FinishFrame)} : ResumeFinish(r, "length")
  /\ UNCHANGED <<pc, src, msg, multi, digest, Hlast, dalign, counters, build, tr, put, mix, stale>>

\* the zeros, the length and the final block
StepLength ==
  /\ loc.at = "length"
  /\ \E r \in {FinishLength(FinishFrame, loc.num_bits)} : ResumeFinish(r, "digest")
  /\ UNCHANGED <<pc, src, msg, multi, digest, Hlast, dalign, counters, build, tr, put, mix, stale>>

\* the digest stored: through the temporary when the array is not aligned
\* or the build is with MHD_FAVOR_SMALL_CODE
StepDigest ==
  /\ loc.at = "digest"
  /\ \E b \in JunkBytes :
       digest' = [digest EXCEPT ![loc.c] =
                    StoreDigest(ctx[loc.c].H, Fill(b, SHA512_256_DIGEST_SIZE),
                                loc.aligned /\ ~build.small_code,
                                Fill(b, SHA512_256_DIGEST_SIZE))]
  /\ dalign' = [dalign EXCEPT ![loc.c] = loc.aligned]
  /\ Hlast' = [Hlast EXCEPT ![loc.c] = ctx[loc.c].H]
  /\ loc' = [loc EXCEPT !.at = "erase"]
  /\ UNCHANGED <<ctx, pc, src, msg, multi, xlog, counters, build, tr, put, mix, stale>>

\* memset (ctx, 0, sizeof(struct Sha512_256Ctx)), and the return
StepErase ==
  /\ loc.at = "erase"
  /\ ctx' = [ctx EXCEPT ![loc.c] = FinishCtx(@)]
  /\ pc' = [pc EXCEPT ![loc.c] = "done"]
  /\ loc' = LocIdle
  /\ UNCHANGED <<src, msg, multi, xlog, digest, Hlast, dalign, counters, build, tr, put, mix, stale>>

\* the call in progress executes its next statement
StepsOfCall ==
  \/ StepAssert
  \/ StepShortcut
  \/ StepCount
  \/ StepNullRead
  \/ StepTopUp
  \/ StepLoopBody
  \/ StepLoopExit
  \/ StepTail
  \/ StepBits
  \/ StepPad
  \/ StepLength
  \/ StepDigest
  \/ StepErase

NextSteps ==
  \/ DoInit("A", 1)
  \/ \E p \in StepCuts : CallUpdate("A", p)
  \/ \E n \in NullLens : CallUpdateNull("A", n)
  \/ \E aligned \in BOOLEAN : CallFinish("A", aligned)
  \/ StepsOfCall

\* the call in progress has a next statement to execute: what
\* ENABLED <<StepsOfCall>>_vars is, every statement changing loc
CallCanStep ==
  /\ loc.at \in UpdateLabels \cup FinishLabels
  /\ (loc.at = "loop" /\ MoreBlocks(UpdateFrame, loc.data)) => loc.iters < MaxLoopSteps

\* the processor goes on executing a call that was entered: weak fairness
\* of the statements, WF_vars(StepsOfCall), with its ENABLED written as the
\* state predicate above
FairSteps == []<>(~CallCanStep) \/ []<><<StepsOfCall>>_vars

SpecSteps == InitSteps /\ [][NextSteps]_vars /\ FairSteps

(***************************************************************************)
(* The same statements with the buffer filled up to the places where the   *)
(* padding and the copies change their course                              *)
(***************************************************************************)
\* the places where the caller cuts its stream: the buffer left with 111,
\* 112 and 127 bytes, full blocks, and the longest tail
EdgeCuts == {0, 111, 112, 127, 128, 255}

NextEdges ==
  \/ DoInit("A", 1)
  \/ \E p \in EdgeCuts : CallUpdate("A", p)
  \/ \E n \in NullLens : CallUpdateNull("A", n)
  \/ \E aligned \in BOOLEAN : CallFinish("A", aligned)
  \/ StepsOfCall

SpecEdges == InitSteps /\ [][NextEdges]_vars

(***************************************************************************)
(* One state and one block given to sha512_256_transform in every build    *)
(* and alignment in turn                                                   *)
(***************************************************************************)
Cfg(small_code, big_endian, allow_unaligned, aligned) ==
  [small_code |-> small_code, big_endian |-> big_endian,
   allow_unaligned |-> allow_unaligned, aligned |-> aligned]

\* the builds and alignments, in the order they are run
TrConfigs ==
  << Cfg(FALSE, FALSE, FALSE, TRUE), Cfg(FALSE, FALSE, FALSE, FALSE),
     Cfg(FALSE, FALSE, TRUE, FALSE),
     Cfg(FALSE, TRUE, FALSE, TRUE), Cfg(FALSE, TRUE, FALSE, FALSE),
     Cfg(FALSE, TRUE, TRUE, FALSE),
     Cfg(TRUE, FALSE, FALSE, TRUE), Cfg(TRUE, FALSE, FALSE, FALSE),
     Cfg(TRUE, FALSE, TRUE, FALSE),
     Cfg(TRUE, TRUE, FALSE, TRUE), Cfg(TRUE, TRUE, FALSE, FALSE),
     Cfg(TRUE, TRUE, TRUE, FALSE) >>

\* the states: the initial one, all bits set, and the state after "abc"
TrStates ==
  { IV,
    Fill(Fill(255, 8), SHA512_256_HASH_SIZE_WORDS),
    FinishRun(UpdateCtx(InitCtx(JunkCtx(0)), <<97, 98, 99>>).ctx).ctx.H }

\* the blocks: 128 bytes of each stream, all bits clear, all bits set
TrBlocks ==
  { Stream(1, SHA512_256_BLOCK_SIZE), Stream(2, SHA512_256_BLOCK_SIZE),
    Fill(0, SHA512_256_BLOCK_SIZE), Fill(255, SHA512_256_BLOCK_SIZE) }

\* no context in use
NoContexts ==
  /\ ctx = <<>> /\ pc = <<>> /\ src = <<>> /\ msg = <<>> /\ multi = <<>>
  /\ xlog = <<>> /\ digest = <<>> /\ Hlast = <<>> /\ dalign = <<>>

InitTransform ==
  /\ NoContexts
  /\ CountersIdle
  /\ build = DefaultBuild
  /\ loc = LocIdle
  /\ tr \in {[TrIdle EXCEPT !.H = h, !.data = d] : h \in TrStates, d \in TrBlocks}
  /\ put = PutIdle
  /\ mix = MixIdle
  /\ stale = StaleIdle

\* sha512_256_transform (tr.H, tr.data) in the way cfg, the next to run
RunTransform(cfg) ==
  /\ Len(tr.out) < Len(TrConfigs)
  /\ cfg = TrConfigs[Len(tr.out) + 1]
  /\ tr' = [tr EXCEPT !.out = Append(@, TransformOn(cfg, tr.H, tr.data))]
  /\ UNCHANGED <<hashing, counters, build, loc, put, mix, stale>>

NextTransform == \E i \in 1..Len(TrConfigs) : RunTransform(TrConfigs[i])

SpecTransform == InitTransform /\ [][NextTransform]_vars

(***************************************************************************)
(* The message schedule of one block, assignment by assignment             *)
(***************************************************************************)
\* the steps of sha512_256_transform
ScheduleSteps == 80

InitSchedule ==
  /\ NoContexts
  /\ CountersIdle
  /\ build = DefaultBuild
  /\ loc = LocIdle
  /\ tr \in {[TrIdle EXCEPT !.data = d] : d \in TrBlocks}
  /\ put = PutIdle
  /\ mix = MixIdle
  /\ stale = StaleIdle

\* the assignment to W[t & 15] of step t: from the data for t < 16, by Wgen
\* after
ScheduleStep ==
  /\ tr.t < ScheduleSteps
  /\ \E W1 \in {StepW(tr.W, tr.data, tr.t)} :
       tr' = [tr EXCEPT !.W = W1,
                        !.t = @ + 1,
                        !.stored = Append(@, W1[(tr.t % 16) + 1])]
  /\ UNCHANGED <<hashing, counters, build, loc, put, mix, stale>>

NextSchedule == ScheduleStep

SpecSchedule == InitSchedule /\ [][NextSchedule]_vars

(***************************************************************************)
(* The macros Ch and Maj applied to words                                  *)
(***************************************************************************)
\* the words given to Ch and Maj: at every bit place the eight triples of
\* bits occur among the triples of the first two words; the others mix
\* the bits within the bytes
MixWords ==
  { Zero64,
    <<\hff, \hff, \hff, \hff, \hff, \hff, \hff, \hff>>,
    <<\hf0, \hf0, \hf0, \hf0, \hf0, \hf0, \hf0, \hf0>>,
    <<\hcc, \hcc, \hcc, \hcc, \hcc, \hcc, \hcc, \hcc>>,
    <<\haa, \haa, \haa, \haa, \haa, \haa, \haa, \haa>>,
    IV[1] }

InitMix ==
  /\ NoContexts
  /\ CountersIdle
  /\ build = DefaultBuild
  /\ loc = LocIdle
  /\ tr = TrIdle
  /\ put = PutIdle
  /\ mix \in {[MixIdle EXCEPT !.x = x, !.y = y, !.z = z] :
                x \in MixWords, y \in MixWords, z \in MixWords}
  /\ stale = StaleIdle

\* Ch (x, y, z) is computed
ApplyCh ==
  /\ mix.ch = <<>>
  /\ mix' = [mix EXCEPT !.ch = Ch(mix.x, mix.y, mix.z)]
  /\ UNCHANGED <<hashing, counters, build, loc, tr, put, stale>>

\* Maj (x, y, z) is computed
ApplyMaj ==
  /\ mix.maj = <<>>
  /\ mix' = [mix EXCEPT !.maj = Maj(mix.x, mix.y, mix.z)]
  /\ UNCHANGED <<hashing, counters, build, loc, tr, put, stale>>

NextMix == ApplyCh \/ ApplyMaj

SpecMix == InitMix /\ [][NextMix]_vars

(***************************************************************************)
(* test_put_broken_len: three PUT requests with a broken Content-Length    *)
(***************************************************************************)
MHD_HTTP_OK == 200
MHD_HTTP_BAD_REQUEST == 400
MHD_HTTP_NOT_FOUND == 404

EXPECTED_URI_BASE_PATH == "/"
EXISTING_URI == EXPECTED_URI_BASE_PATH

\* the header gone wrong: a well-formed length
hdr_cnt_len_zero == [name |-> "Content-Length", value |-> <<"0">>]

\* curl_slist_append (hdr_broken_cnt_len, "Content-Length: 123bad")
hdr_broken_cnt_len ==
  [name |-> "Content-Length", value |-> <<"1", "2", "3", "b", "a", "d">>]

\* the request of the easy handle: a "custom" PUT of EXPECTED_URI_BASE_PATH
\* with the header list and without upload data
setupCURL(oneone) ==
  [method |-> "PUT",
   url |-> EXPECTED_URI_BASE_PATH,
   version |-> IF oneone THEN "HTTP/1.1" ELSE "HTTP/1.0",
   header |-> hdr_broken_cnt_len,
   body |-> <<>>]

\* one call of the access handler: "exit" when a check fails, "again" after
\* the first call for a request, else the code of the response it queues
ahcCheck(oneone, param, url, method, version, upload_data_null, upload_data_size, marked) ==
  IF \/ version # (IF oneone THEN "HTTP/1.1" ELSE "HTTP/1.0")
     \/ url # param.rq_url
     \/ ~upload_data_null
     \/ upload_data_size # 0
     \/ method # param.rq_method
  THEN [out |-> "exit", code |-> 0]
  ELSE IF ~marked
  THEN [out |-> "again", code |-> 0]
  ELSE [out |-> "queued",
        code |-> IF url = EXISTING_URI THEN MHD_HTTP_OK ELSE MHD_HTTP_NOT_FOUND]

\* check_result (curl_code, c, expected_code): non-zero if success
check_result(curl_code, code, expected_code) ==
  IF curl_code # "CURLE_OK" THEN 0
  ELSE IF expected_code # code THEN 0
  ELSE 1

Digits == <<"0", "1", "2", "3", "4", "5", "6", "7", "8", "9">>

RECURSIVE StrToNum(_)
\* the number a string of digits writes
StrToNum(v) ==
  IF v = <<>> THEN 0
  ELSE 10 * StrToNum(SubSeq(v, 1, Len(v) - 1))
         + (CHOOSE d \in 0..9 : Digits[d + 1] = v[Len(v)])

\* the daemon's reading of a Content-Length value: the number, or -1 when
\* the value is not a string of digits only
ParseContentLength(v) ==
  IF v # <<>> /\ \A i \in 1..Len(v) : \E d \in 1..10 : Digits[d] = v[i]
  THEN StrToNum(v)
  ELSE -1

\* the call of the access handler the daemon makes for the request rq with
\* no upload data to give
HandlerCall(oneone, param, rq, marked) ==
  ahcCheck(oneone, param, rq.url, rq.method, rq.version, TRUE, 0, marked)

\* what the handler was called with
NoUploadCall == [upload_data_null |-> TRUE, upload_data_size |-> 0]

\* the daemon's answer to the request rq: the code of the response sent (0:
\* none, the daemon waits for a body), the calls of the access handler made,
\* and whether the handler left the test.  A request whose Content-Length is
\* not a number is answered 400 before the handler is called
MhdAnswer(oneone, param, rq) ==
  IF ParseContentLength(rq.header.value) = -1
  THEN [code |-> MHD_HTTP_BAD_REQUEST, ahc |-> <<>>, exit |-> FALSE]
  ELSE IF HandlerCall(oneone, param, rq, FALSE).out = "exit"
  THEN [code |-> 0, ahc |-> <<NoUploadCall>>, exit |-> TRUE]
  ELSE IF ParseContentLength(rq.header.value) > Len(rq.body)
  THEN [code |-> 0, ahc |-> <<NoUploadCall>>, exit |-> FALSE]
  ELSE [code |-> HandlerCall(oneone, param, rq, TRUE).code,
        ahc |-> <<NoUploadCall, NoUploadCall>>,
        exit |-> FALSE]

\* ahc_param as performTest sets it
AhcParam == [rq_method |-> "PUT", rq_url |-> EXPECTED_URI_BASE_PATH]

\* the number of requests performTest makes
PutRequests == 3

InitPut ==
  /\ NoContexts
  /\ CountersIdle
  /\ build = DefaultBuild
  /\ loc = LocIdle
  /\ tr = TrIdle
  /\ put \in {[PutIdle EXCEPT !.oneone = o] : o \in BOOLEAN}
  /\ mix = MixIdle
  /\ stale = StaleIdle

\* the int oneone in an arithmetic expression
IntOf(b) == IF b THEN 1 ELSE 0

\* port = 4220 + oneone ? 0 : 1: the sum is the condition of ?:, as + binds
\* tighter than ?: does; the value is stored in a uint16_t
PortWithoutAutodetect(oneone) ==
  (IF 4220 + IntOf(oneone) # 0 THEN 0 ELSE 1) % 65536

\* port = 0 when the bind port is detected, else the expression above
PortForDaemon(autodetect, oneone) ==
  IF autodetect THEN 0 ELSE PortWithoutAutodetect(oneone)

\* the ports MHD_get_daemon_info may report for a daemon started on port 0:
\* any port but 0, which ends the test in mhdErrorExitDesc
BoundPorts == {1024, 49152, 65535}

\* performTest starts the daemon on the port it computed, takes the port
\* from the daemon when that port is 0, and makes the easy handle
PtStart ==
  /\ put.at = "off"
  /\ \E autodetect \in BOOLEAN :
       \E port \in {PortForDaemon(autodetect, put.oneone)} :
         \E bound \in (IF port = 0 THEN BoundPorts ELSE {port}) :
           put' = [put EXCEPT !.at = "request", !.rq = 1,
                              !.autodetect = autodetect,
                              !.daemon_port = port,
                              !.port = bound]
  /\ UNCHANGED <<hashing, counters, build, loc, tr, mix, stale>>

\* performQueryExternal: the multi handle of multi_reuse or a new one, and
\* the easy handle added to it
PqAddHandle ==
  /\ put.at = "request"
  /\ put' = [put EXCEPT
               !.at = "perform",
               !.multi = TRUE,
               !.handle = IF put.multi THEN @ ELSE @ + 1,
               !.conn = put.multi /\ @,
               !.handles = Append(@, IF put.multi THEN put.handle
                                     ELSE put.handle + 1)]
  /\ UNCHANGED <<hashing, counters, build, loc, tr, mix, stale>>

\* curl_multi_perform: the request is sent on the connection the multi
\* handle has or, when it has none, on a new one
CurlSend ==
  /\ put.at = "perform"
  /\ put' = [put EXCEPT !.at = "sent",
                        !.conn = TRUE,
                        !.opened = Append(@, ~put.conn)]
  /\ UNCHANGED <<hashing, counters, build, loc, tr, mix, stale>>

\* MHD_run_from_select: the daemon reads the request and answers it
MhdRead ==
  /\ put.at = "sent"
  /\ \E ans \in {MhdAnswer(put.oneone, AhcParam, setupCURL(put.oneone))} :
       put' = [put EXCEPT !.at = IF ans.exit THEN "exit" ELSE "answer",
                          !.resp = ans.code,
                          !.ahc = @ \o ans.ahc]
  /\ UNCHANGED <<hashing, counters, build, loc, tr, mix, stale>>

\* MHD_run_from_select: the response is sent; the daemon then closes the
\* connection or, with HTTP/1.1, may keep it
MhdSend ==
  /\ put.at = "answer"
  /\ \E keep \in (IF put.oneone THEN BOOLEAN ELSE {FALSE}) :
       put' = [put EXCEPT !.at = "replied", !.conn = keep]
  /\ UNCHANGED <<hashing, counters, build, loc, tr, mix, stale>>

\* curl_multi_perform and curl_multi_info_read: the transfer is over, with
\* the response or, no response coming, with a timeout
CurlDone ==
  /\ put.at = "replied"
  /\ put' = [put EXCEPT
               !.at = "check",
               !.results = Append(@, IF put.resp = 0
                                     THEN "CURLE_OPERATION_TIMEDOUT"
                                     ELSE "CURLE_OK"),
               !.codes = Append(@, put.resp)]
  /\ UNCHANGED <<hashing, counters, build, loc, tr, mix, stale>>

\* performTest checks the result of the request; before the third request
\* it cleans the multi handle up, which forces a new connection
PtCheck ==
  /\ put.at = "check"
  /\ put' = [put EXCEPT
               !.failed = IF check_result(put.results[put.rq],
                                          put.codes[put.rq],
                                          MHD_HTTP_BAD_REQUEST) # 0
                          THEN @ ELSE 1,
               !.rq = IF put.rq < PutRequests THEN @ + 1 ELSE @,
               !.at = IF put.rq < PutRequests THEN "request" ELSE "stop",
               !.multi = IF put.rq = PutRequests - 1 THEN FALSE ELSE @,
               !.conn = IF put.rq = PutRequests - 1 THEN FALSE ELSE @]
  /\ UNCHANGED <<hashing, counters, build, loc, tr, mix, stale>>

\* performTest stops the daemon and returns
PtStop ==
  /\ put.at = "stop"
  /\ put' = [put EXCEPT !.at = "end",
                        !.multi = FALSE,
                        !.conn = FALSE,
                        !.ret = IF put.failed # 0 THEN 1 ELSE 0]
  /\ UNCHANGED <<hashing, counters, build, loc, tr, mix, stale>>

NextPut ==
  \/ PtStart
  \/ PqAddHandle
  \/ CurlSend
  \/ MhdRead
  \/ MhdSend
  \/ CurlDone
  \/ PtCheck
  \/ PtStop

SpecPut == InitPut /\ [][NextPut]_vars

(***************************************************************************)
(* The properties                                                          *)
(***************************************************************************)
\* a digest as the caller prints it: two lowercase hexadecimal digits a byte
HexChars ==
  <<"0", "1", "2", "3", "4", "5", "6", "7",
    "8", "9", "a", "b", "c", "d", "e", "f">>
RECURSIVE Hex(_)
Hex(bytes) ==
  IF bytes = <<>> THEN <<>>
  ELSE <<HexChars[(Head(bytes) \div 16) + 1], HexChars[(Head(bytes) % 16) + 1]>>
         \o Hex(Tail(bytes))

\* init, one update with all of M, finish on a fresh context: the digest
OneShotDigest(M) ==
  StoreDigest(FinishRun(UpdateCtx(InitCtx(JunkCtx(0)), M).ctx).ctx.H,
              Fill(0, SHA512_256_DIGEST_SIZE), TRUE,
              Fill(0, SHA512_256_DIGEST_SIZE))

\* C1: chunking invariance.  Whatever the cuts of the message into update
\* calls (empty ones included), the digest finish delivers is the digest of
\* init, one update with the whole message, finish.
ChunkingInvariance ==
  \A c \in DOMAIN ctx :
    pc[c] = "done" => digest[c] = OneShotDigest(msg[c])

\* a message of more than two blocks given in several non-empty update calls
\* has been finished
ChunkedRunFinished ==
  \E c \in DOMAIN ctx :
    pc[c] = "done" /\ multi[c] /\ Len(msg[c]) > 2 * SHA512_256_BLOCK_SIZE

\* C3: post-finalize hygiene.  After finish every byte of the context is
\* zero: the eight H words, the 128 buffer bytes, count and count_bits_hi.
PostFinalizeHygiene ==
  \A c \in DOMAIN ctx :
    pc[c] = "done" =>
      /\ DOMAIN ctx[c] = {"H", "buffer", "count", "count_bits_hi"}
      /\ Len(ctx[c].H) = SHA512_256_HASH_SIZE_WORDS
      /\ \A i \in 1..SHA512_256_HASH_SIZE_WORDS :
           \A j \in 1..8 : ctx[c].H[i][j] = 0
      /\ Len(ctx[c].buffer) = SHA512_256_BLOCK_SIZE
      /\ \A j \in 1..SHA512_256_BLOCK_SIZE : ctx[c].buffer[j] = 0
      /\ \A j \in 1..8 : ctx[c].count[j] = 0 /\ ctx[c].count_bits_hi[j] = 0

\* a context that held buffered bytes and a non-zero count has been finished
FinishedAfterUpdates ==
  \E c \in DOMAIN ctx : pc[c] = "done" /\ Len(msg[c]) = 129

\* the NIST SHA-512/256 test vector for "abc"
AbcDigestHex ==
  <<"5", "3", "0", "4", "8", "e", "2", "6", "8", "1", "9", "4", "1", "e",
    "f", "9", "9", "b", "2", "e", "2", "9", "b", "7", "6", "b", "4", "c",
    "7", "d", "a", "b", "e", "4", "c", "2", "d", "0", "c", "6", "3", "4",
    "f", "c", "6", "d", "4", "6", "e", "0", "e", "2", "f", "1", "3", "1",
    "0", "7", "e", "7", "a", "f", "2", "3">>

\* C4: known-answer vector.  init, update with the 3 bytes "abc", finish
\* gives 53048e26...07e7af23.
KnownAnswerAbc ==
  \A c \in DOMAIN ctx :
    (pc[c] = "done" /\ msg[c] = <<97, 98, 99>>) => Hex(digest[c]) = AbcDigestHex

AbcFinished ==
  \E c \in DOMAIN ctx : pc[c] = "done" /\ msg[c] = <<97, 98, 99>>

\* the digest of the empty string as the specification prints it (63 digits)
EmptyDigestHexAsWritten ==
  <<"c", "6", "7", "2", "b", "8", "d", "1", "e", "f", "5", "6", "e", "d",
    "2", "8", "a", "b", "8", "7", "c", "3", "6", "2", "2", "c", "5", "1",
    "1", "4", "0", "6", "9", "b", "d", "d", "3", "a", "d", "7", "b", "8",
    "f", "9", "7", "3", "7", "4", "9", "8", "d", "0", "c", "0", "1", "e",
    "c", "e", "f", "0", "9", "6", "7">>

\* the FIPS 180-4 SHA-512/256 digest of the empty string (64 digits)
EmptyDigestHexFIPS ==
  <<"c", "6", "7", "2", "b", "8", "d", "1", "e", "f", "5", "6", "e", "d",
    "2", "8", "a", "b", "8", "7", "c", "3", "6", "2", "2", "c", "5", "1",
    "1", "4", "0", "6", "9", "b", "d", "d", "3", "a", "d", "7", "b", "8",
    "f", "9", "7", "3", "7", "4", "9", "8", "d", "0", "c", "0", "1", "e",
    "c", "e", "f", "0", "9", "6", "7", "a">>

\* C5 as written: finish after no update, or after one update with empty
\* input, gives the digest c672b8d1...cef0967 (the 63 digits printed).
EmptyInputAsWritten ==
  \A c \in DOMAIN ctx :
    (pc[c] = "done" /\ msg[c] = <<>>) =>
      Hex(digest[c]) = EmptyDigestHexAsWritten

\* C5, amended: finish after no update, or after one update with empty
\* input, gives the 32 bytes c672b8d1...cef0967a, the printed digits followed
\* by the digit "a" that the specification's string lacks.
EmptyInputDigest ==
  \A c \in DOMAIN ctx :
    (pc[c] = "done" /\ msg[c] = <<>>) =>
      /\ Hex(digest[c]) = EmptyDigestHexFIPS
      /\ Hex(digest[c]) = Append(EmptyDigestHexAsWritten, "a")

EmptyFinished ==
  \E c \in DOMAIN ctx : pc[c] = "done" /\ msg[c] = <<>>

\* the 128-bit big-endian encoding of n, 0 <= n < 2^31
BE128(n) ==
  Fill(0, 12) \o <<(n \div 16777216) % 256, (n \div 65536) % 256,
                   (n \div 256) % 256, n % 256>>

\* M || 0x80 || k zero bytes || the 16 bytes of 8 * Len(M), k >= 0 the least
\* that makes the length a multiple of 128
Padded(M) ==
  M \o <<128>>
    \o Fill(0, (SHA512_256_BLOCK_SIZE
                  - ((Len(M) + 1 + 16) % SHA512_256_BLOCK_SIZE))
                % SHA512_256_BLOCK_SIZE)
    \o BE128(8 * Len(M))

\* the consecutive 128-byte slices of P
Slices(P) ==
  [i \in 1..(Len(P) \div SHA512_256_BLOCK_SIZE) |->
     SubSeq(P, SHA512_256_BLOCK_SIZE * (i - 1) + 1, SHA512_256_BLOCK_SIZE * i)]

\* C6: byte-exact padding protocol.  Over a whole init, update*, finish run
\* the blocks passed to sha512_256_transform are, in order, the 128-byte
\* slices of the padded message.
PaddingProtocol ==
  \A c \in DOMAIN ctx :
    pc[c] = "done" =>
      /\ Len(Padded(msg[c])) % SHA512_256_BLOCK_SIZE = 0
      /\ xlog[c] = Slices(Padded(msg[c]))

\* a message of 112 bytes, whose padding takes a second block, was finished
TwoBlockPaddingFinished ==
  \E c \in DOMAIN ctx :
    pc[c] = "done" /\ Len(msg[c]) = 112 /\ Len(xlog[c]) = 2

\* C7: buffer invariant.  After init and after every update the number of
\* buffered bytes, count mod 128, is the number of bytes supplied mod 128
\* (so less than a block), and the buffer starts with that many last bytes
\* of the message.
BufferInvariant ==
  \A c \in DOMAIN ctx :
    pc[c] = "ready" =>
      /\ BytesHave(ctx[c].count) \in 0..(SHA512_256_BLOCK_SIZE - 1)
      /\ BytesHave(ctx[c].count) = Len(msg[c]) % SHA512_256_BLOCK_SIZE
      /\ SubSeq(ctx[c].buffer, 1, Len(msg[c]) % SHA512_256_BLOCK_SIZE)
           = SubSeq(msg[c],
                    Len(msg[c]) - (Len(msg[c]) % SHA512_256_BLOCK_SIZE) + 1,
                    Len(msg[c]))

\* an update that completed a buffered block and left a tail has returned
TailBufferedAfterBlock ==
  \E c \in DOMAIN ctx :
    pc[c] = "ready" /\ multi[c] /\ Len(msg[c]) = 257 /\ Len(xlog[c]) = 2

\* byte j (from 0) of the big-endian encoding of the uint64_t x
BEByte(x, j) == Shr64(x, 8 * (7 - j))[8]

\* C10: digest extraction.  The digest is 32 bytes, the big-endian encodings
\* of H[0], H[1], H[2], H[3] as they are after the last transform, whether
\* the digest array is aligned or not; H[4..7] give no output byte.
DigestExtraction ==
  \A c \in DOMAIN ctx :
    pc[c] = "done" =>
      /\ Len(digest[c]) = SHA512_256_DIGEST_SIZE
      /\ \A j \in 0..(SHA512_256_DIGEST_SIZE - 1) :
           digest[c][j + 1] = BEByte(Hlast[c][(j \div 8) + 1], j % 8)

\* a digest was stored through the aligned temporary
UnalignedDigestStored ==
  \E c \in DOMAIN ctx :
    pc[c] = "done" /\ ~dalign[c] /\ Len(msg[c]) = 3

\* a context no operation was made on in this step: what its caller
\* observes is as before
Untouched(c) ==
  /\ pc'[c] = pc[c]
  /\ msg'[c] = msg[c]
  /\ xlog'[c] = xlog[c]

\* C2: context isolation.  With two contexts driven in any interleaving,
\* each context's digest is the digest of its own message hashed alone, and
\* an operation on one context changes no field of the other.
ContextIsolation ==
  /\ [](\A c \in DOMAIN ctx :
          pc[c] = "done" => digest[c] = OneShotDigest(msg[c]))
  /\ [][\A c \in DOMAIN ctx :
          Untouched(c) => (ctx'[c] = ctx[c] /\ digest'[c] = digest[c])]_vars

\* both contexts finished, each after several non-empty updates of its own
\* message
BothFinishedInterleaved ==
  /\ DOMAIN ctx = {"A", "B"}
  /\ \A c \in DOMAIN ctx : pc[c] = "done" /\ multi[c] /\ Len(msg[c]) = 131
  /\ msg["A"] # msg["B"]

\* C8: lossless byte counting.  count_bits_hi * 2^61 + count is the number
\* of bytes supplied, for update calls of any length a size_t can hold.
LosslessByteCount ==
  lenfield = <<>> =>
    AddBytes(ShlBytes(Zero64 \o cnt.count_bits_hi, 61), Zero64 \o cnt.count)
      = total

\* C9: length field.  The last 16 bytes of the final block are the 128-bit
\* big-endian number 8 * (the number of bytes supplied to update).
LengthFieldIsBitCount ==
  lenfield # <<>> => lenfield = ShlBytes(total, 3)

\* the initial hash value of SHA-512/256, FIPS 180-4 clause 5.3.6.2, as printed
FipsInitialHashHex ==
  << <<"2", "2", "3", "1", "2", "1", "9", "4", "f", "c", "2", "b", "f", "7", "2", "c">>,
     <<"9", "f", "5", "5", "5", "f", "a", "3", "c", "8", "4", "c", "6", "4", "c", "2">>,
     <<"2", "3", "9", "3", "b", "8", "6", "b", "6", "f", "5", "3", "b", "1", "5", "1">>,
     <<"9", "6", "3", "8", "7", "7", "1", "9", "5", "9", "4", "0", "e", "a", "b", "d">>,
     <<"9", "6", "2", "8", "3", "e", "e", "2", "a", "8", "8", "e", "f", "f", "e", "3">>,
     <<"b", "e", "5", "e", "1", "e", "2", "5", "5", "3", "8", "6", "3", "9", "9", "2">>,
     <<"2", "b", "0", "1", "9", "9", "f", "c", "2", "c", "8", "5", "b", "8", "a", "a">>,
     <<"0", "e", "b", "7", "2", "d", "d", "c", "8", "1", "c", "5", "2", "c", "a", "2">> >>

\* C11: initializer.  Whatever the context held before, after
\* MHD_SHA512_256_init H holds the eight initial values of FIPS 180-4 clause
\* 5.3.6.2, count and count_bits_hi are 0 and no byte is buffered.
InitializerResult ==
  \A c \in DOMAIN ctx :
    (pc[c] = "ready" /\ msg[c] = <<>>) =>
      /\ Len(ctx[c].H) = SHA512_256_HASH_SIZE_WORDS
      /\ \A i \in 1..SHA512_256_HASH_SIZE_WORDS :
           Hex(ctx[c].H[i]) = FipsInitialHashHex[i]
      /\ \A j \in 1..8 : ctx[c].count[j] = 0 /\ ctx[c].count_bits_hi[j] = 0
      /\ BytesHave(ctx[c].count) = 0

\* a context whose memory held the byte 0xA5 everywhere has been initialised
JunkContextInitialised ==
  \E c \in DOMAIN ctx :
    /\ pc[c] = "ready" /\ msg[c] = <<>>
    /\ ctx[c].buffer = Fill(165, SHA512_256_BLOCK_SIZE)

\* the runs of tr.out made with the code size choice small_code
RunsOf(small_code) ==
  {i \in 1..Len(tr.out) : TrConfigs[i].small_code = small_code}

\* C13: alignment and byte order independence.  For a state and a block,
\* sha512_256_transform gives the same state on aligned data (words decoded
\* from the input), on unaligned data (block copied to W, W[t] decoded in
\* place) and on hosts of either byte order; the aligned little-endian run
\* is the transform the whole-call runs use.
AlignmentEndianIndependence ==
  /\ \A small_code \in BOOLEAN :
       \A i, j \in RunsOf(small_code) : tr.out[i] = tr.out[j]
  /\ Len(tr.out) = Len(TrConfigs) =>
       tr.out[1] = sha512_256_transform(tr.H, tr.data)

\* the unrolled code has run on unaligned data on hosts of both byte orders
UnalignedRunsBothOrders ==
  /\ Len(tr.out) = Len(TrConfigs)
  /\ tr.H = IV
  /\ tr.data = Stream(2, SHA512_256_BLOCK_SIZE)

\* C14: the two transform strategies.  For a state and a block, the
\* unrolled 80 steps and the MHD_FAVOR_SMALL_CODE loops over K[80] with
\* SHA2STEP64RV leave the same eight values in H.
StrategiesEquivalent ==
  \A i, j \in 1..Len(tr.out) :
    (/\ ~TrConfigs[i].small_code
     /\ TrConfigs[j] = [TrConfigs[i] EXCEPT !.small_code = TRUE])
      => tr.out[i] = tr.out[j]

\* the loop form has run after the unrolled form on the same state and block
BothStrategiesRun ==
  /\ Len(tr.out) >= 7
  /\ tr.H # IV
  /\ tr.data = Stream(1, SHA512_256_BLOCK_SIZE)


\* C12: a zero-length update is a no-op.  While MHD_SHA512_256_update
\* (ctx, data, 0) runs, with data null or not, with the early return and
\* (MHD_FAVOR_SMALL_CODE) without it, no statement changes H, buffer, count
\* or count_bits_hi and none calls sha512_256_transform
ZeroLengthUpdateNoOp ==
  [][(loc.at \in UpdateLabels /\ loc.n = 0) => (ctx' = ctx /\ xlog' = xlog)]_vars

\* an update of no bytes through a null pointer, in the build without the
\* early return, has run to its last statement with bytes in the buffer
ZeroLengthUpdateRunThrough ==
  /\ loc.at = "tail"
  /\ loc.n = 0
  /\ loc.null
  /\ build.small_code
  /\ loc.bytes_have # 0


\* C15: finish always succeeds and every call terminates.  The block loop of
\* an update of length bytes runs at most length / 128 times (rounded down);
\* an update entered with data it may read returns; a finish entered
\* returns with the context finished and a digest of SHA512_256_DIGEST_SIZE
\* bytes delivered, never stopping in an error
CallsTerminate ==
  /\ [](loc.at \in UpdateLabels => loc.iters <= loc.n \div SHA512_256_BLOCK_SIZE)
  /\ (loc.at \in UpdateLabels /\ ~(loc.null /\ loc.n # 0)) ~> (loc.at = "idle")
  /\ (loc.at \in FinishLabels) ~>
       (/\ loc.at = "idle"
        /\ pc["A"] = "done"
        /\ Len(digest["A"]) = SHA512_256_DIGEST_SIZE)

\* a finish has returned after one update whose block loop ran twice
FinishedAfterTwoLoopRuns ==
  /\ pc["A"] = "done"
  /\ Len(digest["A"]) = SHA512_256_DIGEST_SIZE
  /\ Len(msg["A"]) >= 2 * SHA512_256_BLOCK_SIZE
  /\ ~multi["A"]


\* C16: a null data pointer with length > 0 is not silently hashed.  While
\* MHD_SHA512_256_update (ctx, NULL, length) with length > 0 runs, no
\* statement changes H, buffer, count or count_bits_hi and none calls
\* sha512_256_transform: the call stops at the assertion or does nothing
NullDataNeverIncorporated ==
  [][(loc.at \in UpdateLabels /\ loc.null /\ loc.n # 0) =>
       (ctx' = ctx /\ xlog' = xlog)]_vars


\* the step is one MHD_SHA512_256_update on c with length > 0
UpdatedBy(c) ==
  /\ pc[c] = "ready"
  /\ pc'[c] = "ready"
  /\ Len(msg'[c]) > Len(msg[c])

\* the blocks an update of `data' passes to sha512_256_transform, `new',
\* with b bytes in the buffer `buf' before, and the bytes buffered after it
BlocksInOrder(b, buf, data, new, have) ==
  /\ Len(new) = (b + Len(data)) \div SHA512_256_BLOCK_SIZE
  /\ (b > 0 /\ b + Len(data) >= SHA512_256_BLOCK_SIZE) =>
       new[1] = SubSeq(buf, 1, b) \o SubSeq(data, 1, SHA512_256_BLOCK_SIZE - b)
  /\ \A k \in 1..Len(new) :
       (k > 1 \/ b = 0) =>
         new[k] = SubSeq(data, SHA512_256_BLOCK_SIZE * (k - 1) - b + 1,
                         SHA512_256_BLOCK_SIZE * k - b)
  /\ have = (b + Len(data)) % SHA512_256_BLOCK_SIZE

\* C18: per-call block order.  An update of n > 0 bytes on a context with b
\* bytes buffered calls sha512_256_transform (b + n) / 128 times (rounded
\* down): first on the buffer completed by the first 128 - b bytes of the
\* input when b > 0 and b + n >= 128, then on the next 128-byte slices of
\* the input in increasing order; (b + n) mod 128 bytes are buffered after
BlockProcessingOrder ==
  [][\A c \in DOMAIN ctx :
       UpdatedBy(c) =>
         BlocksInOrder(BytesHave(ctx[c].count), ctx[c].buffer,
                       SubSeq(msg'[c], Len(msg[c]) + 1, Len(msg'[c])),
                       SubSeq(xlog'[c], Len(xlog[c]) + 1, Len(xlog'[c])),
                       BytesHave(ctx'[c].count))]_vars

\* an update found bytes in the buffer and two blocks were transformed in
\* all, the message then being MaxLen bytes
ToppedUpAndSliced ==
  \E c \in DOMAIN ctx :
    /\ pc[c] = "ready"
    /\ multi[c]
    /\ Len(msg[c]) = MaxLen
    /\ Len(xlog[c]) = 2


\* the step is one MHD_SHA512_256_finish on c
FinishedBy(c) ==
  /\ pc[c] = "ready"
  /\ pc'[c] = "done"

\* the blocks a finish passes to sha512_256_transform, `new', with the
\* message M hashed and b bytes in the buffer `buf' before
FinishBlocks(M, b, buf, new) ==
  /\ (Len(M) % SHA512_256_BLOCK_SIZE <= 111) => Len(new) = 1
  /\ (Len(M) % SHA512_256_BLOCK_SIZE >= 112) =>
       /\ Len(new) = 2
       /\ new[1] = SubSeq(buf, 1, b) \o <<128>>
                     \o Fill(0, SHA512_256_BLOCK_SIZE - b - 1)
       /\ new[2] = Fill(0, 112) \o BE128(8 * Len(M))

\* C19: finish calls sha512_256_transform once when the length L of the
\* input has L mod 128 <= 111 and twice when L mod 128 >= 112; of the two
\* blocks the first is the buffered tail, 0x80 and zeros, the second 112
\* zero bytes and the 16 bytes of the length
FinishTransformCount ==
  [][\A c \in DOMAIN ctx :
       FinishedBy(c) =>
         FinishBlocks(msg[c], BytesHave(ctx[c].count), ctx[c].buffer,
                      SubSeq(xlog'[c], Len(xlog[c]) + 1, Len(xlog'[c])))]_vars

\* finishes of both kinds were made: this one, of a message of 127 bytes,
\* took two blocks
FinishedWithTwoBlocks ==
  \E c \in DOMAIN ctx :
    /\ pc[c] = "done"
    /\ Len(msg[c]) = 127
    /\ Len(xlog[c]) = 2


\* what an update of n bytes that finds b bytes buffered and completes no
\* block may change: of the context c0 before and c1 after, H is the same
\* and the buffer differs at the places b .. b+n-1 (counted from 0) at most
OnlyTailWritten(b, n, c0, c1) ==
  /\ c1.H = c0.H
  /\ \A i \in 1..SHA512_256_BLOCK_SIZE :
       (i <= b \/ i > b + n) => c1.buffer[i] = c0.buffer[i]

\* C20: the state is changed only by sha512_256_transform.  An update of n
\* bytes on b buffered bytes with b + n < 128 leaves the eight words of H
\* unchanged, calls no transform and writes, besides count and
\* count_bits_hi, only the buffer bytes b .. b+n-1; the buffered bytes
\* below b stay as they are
NoBlockNoStateChange ==
  [][\A c \in DOMAIN ctx :
       (/\ UpdatedBy(c)
        /\ BytesHave(ctx[c].count) + Len(msg'[c]) - Len(msg[c])
             < SHA512_256_BLOCK_SIZE) =>
         /\ OnlyTailWritten(BytesHave(ctx[c].count),
                            Len(msg'[c]) - Len(msg[c]), ctx[c], ctx'[c])
         /\ xlog'[c] = xlog[c]]_vars

\* a second update has added bytes to a buffer that held some, no block
\* being complete yet
BufferGrownWithoutBlock ==
  \E c \in DOMAIN ctx :
    /\ pc[c] = "ready"
    /\ multi[c]
    /\ Len(msg[c]) = 111
    /\ xlog[c] = <<>>


FipsW(full, t) ==
  Add64(Add64(Add64(sig1(full[t - 2 + 1]), full[t - 7 + 1]),
              sig0(full[t - 15 + 1])),
        full[t - 16 + 1])

\* C21: rolling message schedule.  For every block and every t in 16..79
\* the word Wgen stores in W[t & 15] of the 16-slot cyclic buffer is the
\* schedule word W[t] = W[t-16] + sig1(W[t-2]) + W[t-7] + sig0(W[t-15])
\* (mod 2^64) of the array of all words; before each step the buffer holds
\* the last 16 words, so no slot is overwritten while a later step needs it
RollingSchedule ==
  /\ \A t \in 16..(Len(tr.stored) - 1) : tr.stored[t + 1] = FipsW(tr.stored, t)
  /\ \A k \in 1..16 :
       k <= tr.t => tr.W[((tr.t - k) % 16) + 1] = tr.stored[tr.t - k + 1]
  /\ Len(tr.stored) = tr.t

\* all 80 words of a block that is not all zero were assigned
ScheduleComplete ==
  /\ tr.t = ScheduleSteps
  /\ Len(tr.stored) = ScheduleSteps
  /\ tr.data = Stream(1, SHA512_256_BLOCK_SIZE)

\* the complement of a word
Not64(x) == [i \in 1..8 |-> 255 - x[i]]

\* Ch and Maj as FIPS PUB 180-4 writes them (the forms kept in the comment
\* under the macros)
FipsCh(x, y, z) == Xor64(And64(x, y), And64(Not64(x), z))

FipsMaj(x, y, z) == Xor64(Xor64(And64(x, y), And64(x, z)), And64(y, z))

\* C22: the optimised mixing macros are the standard functions: whenever
\* Ch (x, y, z) = z ^ (x & (y ^ z)) has been computed it is
\* (x & y) ^ (~x & z), and whenever Maj (x, y, z) = (x & y) ^ (z & (x ^ y))
\* has been computed it is (x & y) ^ (x & z) ^ (y & z)
MixingFunctionsStandard ==
  /\ mix.ch # <<>> => mix.ch = FipsCh(mix.x, mix.y, mix.z)
  /\ mix.maj # <<>> => mix.maj = FipsMaj(mix.x, mix.y, mix.z)

\* both macros applied to words where x chooses bits of y and bits of z
MixedBoth ==
  /\ mix.ch # <<>>
  /\ mix.maj # <<>>
  /\ mix.x = <<\haa, \haa, \haa, \haa, \haa, \haa, \haa, \haa>>
  /\ mix.y = <<\hcc, \hcc, \hcc, \hcc, \hcc, \hcc, \hcc, \hcc>>
  /\ mix.z = <<\hf0, \hf0, \hf0, \hf0, \hf0, \hf0, \hf0, \hf0>>
  /\ mix.ch = <<\hd8, \hd8, \hd8, \hd8, \hd8, \hd8, \hd8, \hd8>>
  /\ mix.maj = <<\he8, \he8, \he8, \he8, \he8, \he8, \he8, \he8>>

\* C23: every write into ctx->buffer stays inside its 128 bytes: the buffer
\* never changes its size; where finish stores 0x80 the index bytes_have is
\* at most 127; where finish zero-fills before the length, the fill length
\* 128 - 16 - bytes_have is not negative; where update copies to
\* buffer + bytes_have (top-up or tail) the bytes copied are at most
\* 128 - bytes_have
BufferBounds ==
  /\ \A c \in DOMAIN ctx : Len(ctx[c].buffer) = SHA512_256_BLOCK_SIZE
  /\ loc.at = "pad" => loc.bytes_have <= SHA512_256_BLOCK_SIZE - 1
  /\ loc.at = "length" =>
       SHA512_256_BLOCK_SIZE - SHA512_256_SIZE_OF_LEN_ADD - loc.bytes_have >= 0
  /\ loc.at = "topup" =>
       /\ loc.bytes_have <= SHA512_256_BLOCK_SIZE - 1
       /\ SHA512_256_BLOCK_SIZE - loc.bytes_have <= SHA512_256_BLOCK_SIZE
  /\ loc.at = "tail" =>
       Len(loc.data) - loc.off <= SHA512_256_BLOCK_SIZE - loc.bytes_have

\* finish has stored 0x80 at index 111, the last place that leaves room for
\* the length: the zero-fill has length 0
PadFillsToLength ==
  /\ loc.at = "length"
  /\ loc.bytes_have = SHA512_256_BLOCK_SIZE - SHA512_256_SIZE_OF_LEN_ADD
  /\ ctx[loc.c].buffer[loc.bytes_have] = 128
  /\ Len(msg[loc.c]) = 111
  /\ xlog[loc.c] = <<>>

\* C24: stale buffer content never reaches the digest.  Whatever the
\* buffer held when init was called (memory never written, the bytes of a
\* computation given up, the zeros finish left), the blocks passed to
\* sha512_256_transform since that init are made of the bytes given to
\* update since then and of the padding finish wrote, and the digest is the
\* digest of the same message hashed on a context whose memory was zero
StaleBufferNeverHashed ==
  \A c \in DOMAIN ctx :
    stale.kind \in {"uninitialised", "abandoned", "finished"} =>
      /\ pc[c] = "ready" => xlog[c] = Slices(msg[c])
      /\ pc[c] = "done" =>
           /\ xlog[c] = Slices(Padded(msg[c]))
           /\ digest[c] = OneShotDigest(msg[c])

\* a digest delivered for three bytes hashed after a computation on the
\* other stream was given up with 112 bytes in the buffer: the final block
\* was made over those bytes
FinishedOverAbandonedBytes ==
  /\ pc["A"] = "done"
  /\ stale.kind = "abandoned"
  /\ stale.buffer = SubSeq(Stream(2, 240), 129, 240) \o Fill(165, 16)
  /\ msg["A"] = Stream(1, 3)

\* C25: bounded low-order counter.  After init and after every update
\* count < 2^61 (its three top bits are zero), so that count << 3 shifted
\* back is count again, and count mod 128 is the number of bytes supplied
\* mod 128: moving the high part to count_bits_hi leaves it as it was
BoundedLowCounter ==
  lenfield = <<>> =>
    /\ cnt.count[1] < 32
    /\ Shr64(cnt.count, 61) = Zero64
    /\ Shr64(Shl64(cnt.count, 3), 3) = cnt.count
    /\ BytesHave(cnt.count) = total[16] % SHA512_256_BLOCK_SIZE

\* two updates, of 2^61 - 1 and of 128 bytes: the high part was moved to
\* count_bits_hi and count is left with 127
HighPartFolded ==
  /\ lenfield = <<>>
  /\ cnt.calls = 2
  /\ cnt.count_bits_hi = ToWord64(1)
  /\ cnt.count = ToWord64(127)

\* C26: test port selection.  When the detection of the bind port is not
\* supported, performTest starts the daemon on port 4220 with HTTP/1.1
\* requests (oneone true) and on port 4221 with HTTP/1.0 requests (oneone
\* false); port 0 is given to MHD_start_daemon only when the detection is
\* supported
TestPortSelection ==
  put.daemon_port # -1 =>
    /\ ~put.autodetect => put.daemon_port = (IF put.oneone THEN 4220 ELSE 4221)
    /\ put.daemon_port = 0 => put.autodetect

====
